---- MODULE Spec2Model ----
(***************************************************************************)
(* Verification model of the building digital-twin core:                   *)
(*   backend/app/simulation/thermal_model.py  (ThermalModel2R2C)           *)
(*   backend/app/simulation/scenarios.py      (ScenarioEngine)             *)
(*   backend/app/api/v1/simulation.py         (REST endpoints)             *)
(*                                                                         *)
(* Numbers.  The Python code computes in IEEE-754 doubles.  A double is    *)
(* modelled as a record [fin, v]: a finite value carries an integer v in   *)
(* a fixed unit, and the three non-finite doubles are NaN, PInf and NInf.  *)
(* Units of the finite values:                                             *)
(*   temperature  milli-degree C        power   W                          *)
(*   energy       Wh                    price   1/100 EUR per kWh          *)
(*   cost         Wh * (1/100 EUR/kWh)  time    s                          *)
(*   resistance   1e-4 K/W              capacitance  kJ/K                  *)
(*   COP          1/1000                comfort score  1/1000 point        *)
(* A division is rounded to the nearest unit (RDiv); round(x, 2) and       *)
(* round(x, 1) are modelled as what they do, rounding half to even.        *)
(***************************************************************************)
EXTENDS Integers, Sequences, FiniteSets, TLC

(***************************************************************************)
(* Bounds of the model                                                     *)
(***************************************************************************)
\* longest input series drawn for a simulate call
MaxLen == 3
\* number of simulate calls made on one model with one inputs object
MaxCalls == 2

\* electricity_price is Optional: None, or an array
NoPrices == [some |-> FALSE, arr |-> <<>>]
Prices(a) == [some |-> TRUE, arr |-> a]

(***************************************************************************)
(* IEEE-754 doubles                                                        *)
(***************************************************************************)
F(x) == [fin |-> TRUE, v |-> x]
NaN == [fin |-> FALSE, v |-> 0]
PInf == [fin |-> FALSE, v |-> 1]
NInf == [fin |-> FALSE, v |-> -1]

IsNaN(x) == x = NaN
IsFinite(x) == x.fin

\* a / b rounded to the nearest integer (b > 0)
RDiv(a, b) == (2 * a + b) \div (2 * b)

Sign(n) == IF n > 0 THEN 1 ELSE IF n < 0 THEN -1 ELSE 0

FNeg(x) == [fin |-> x.fin, v |-> -x.v]

FAdd(x, y) ==
    IF x.fin /\ y.fin THEN F(x.v + y.v)
    ELSE IF IsNaN(x) \/ IsNaN(y) THEN NaN
    ELSE IF ~x.fin /\ ~y.fin THEN (IF x.v = y.v THEN x ELSE NaN)
    ELSE IF ~x.fin THEN x ELSE y

FSub(x, y) == FAdd(x, FNeg(y))

\* product of two doubles (the unit of the result is the product of the units)
FMul(x, y) ==
    IF x.fin /\ y.fin THEN F(x.v * y.v)
    ELSE IF IsNaN(x) \/ IsNaN(y) THEN NaN
    ELSE IF Sign(x.v) * Sign(y.v) = 0 THEN NaN
    ELSE [fin |-> FALSE, v |-> Sign(x.v) * Sign(y.v)]

\* x / k for a finite k > 0
FDivK(x, k) == IF x.fin THEN F(RDiv(x.v, k)) ELSE x

FAbs(x) == [fin |-> x.fin, v |-> IF x.v < 0 THEN -x.v ELSE x.v]

\* x < y and x > y; every comparison with NaN is false
FLt(x, y) ==
    IF IsNaN(x) \/ IsNaN(y) THEN FALSE
    ELSE IF x.fin /\ y.fin THEN x.v < y.v
    ELSE IF x.fin THEN y = PInf
    ELSE IF y.fin THEN x = NInf
    ELSE x = NInf /\ y = PInf

FGt(x, y) == FLt(y, x)

\* Python's builtin min(a, b) / max(a, b): the first argument unless the
\* second compares strictly smaller / larger
PyMin(a, b) == IF FLt(b, a) THEN b ELSE a
PyMax(a, b) == IF FGt(b, a) THEN b ELSE a

\* round half to even of a / q, as a multiple of q  (q > 0)
RoundHalfEven(a, q) ==
    LET fl == a \div q
        r == a % q
    IN  IF 2 * r < q THEN fl * q
        ELSE IF 2 * r > q THEN (fl + 1) * q
        ELSE IF fl % 2 = 0 THEN fl * q ELSE (fl + 1) * q

\* round(x, 2) of a value kept in thousandths (temperature, kW, kWh)
Round2(x) == IF x.fin THEN F(RoundHalfEven(x.v, 10)) ELSE x
\* round(x, 1) of a value kept in thousandths
Round1(x) == IF x.fin THEN F(RoundHalfEven(x.v, 100)) ELSE x

RECURSIVE FSum(_)
FSum(s) == IF s = <<>> THEN F(0) ELSE FAdd(FSum(SubSeq(s, 1, Len(s) - 1)), s[Len(s)])

\* Python's max(iterable) over a non-empty sequence
RECURSIVE PyMaxSeq(_)
PyMaxSeq(s) ==
    IF Len(s) = 1 THEN s[1]
    ELSE PyMax(PyMaxSeq(SubSeq(s, 1, Len(s) - 1)), s[Len(s)])

(***************************************************************************)
(* ThermalParameters and the per-building models                           *)
(***************************************************************************)
ThermalParameters ==
    [C_i |-> 5000, C_w |-> 50000, R_iw |-> 20, R_we |-> 10, A_solar |-> 100,
     COP_cool |-> 3500, COP_heat |-> 4000, hvac_capacity_kw |-> 100,
     floor_area_m2 |-> 4500, n_floors |-> 5]

BuildingIds == {"pleiades-a", "pleiades-b", "pleiades-c", "unknown"}

create_building_model(building_id) ==
    IF building_id = "pleiades-a" THEN
        [ThermalParameters EXCEPT !.C_i = 6000, !.C_w = 60000, !.A_solar = 120,
            !.hvac_capacity_kw = 150, !.floor_area_m2 = 4500, !.n_floors = 5]
    ELSE IF building_id = "pleiades-b" THEN
        [ThermalParameters EXCEPT !.C_i = 4000, !.C_w = 40000, !.A_solar = 70,
            !.hvac_capacity_kw = 80, !.floor_area_m2 = 2500, !.n_floors = 2]
    ELSE IF building_id = "pleiades-c" THEN
        [ThermalParameters EXCEPT !.C_i = 2000, !.C_w = 20000, !.A_solar = 40,
            !.hvac_capacity_kw = 40, !.floor_area_m2 = 1200, !.n_floors = 1]
    ELSE ThermalParameters

(***************************************************************************)
(* ThermalModel2R2C: class constants and the per-step helpers              *)
(***************************************************************************)
INTERNAL_GAIN_PER_PERSON == 100
EQUIPMENT_BASE_LOAD == 10
LIGHTING_LOAD == 10
\* a deadband of twice the width
DEADBAND_doubled == 500 + 500
\* DEADBAND = 0.5 degree C
DEADBAND == 500
\* dt = 3600.0 in simulate
SimDt == 3600

\* schedule factors are kept in tenths
_compute_internal_gains(occupancy, hour, floor_area) ==
    LET occupant_gain == FMul(occupancy, F(INTERNAL_GAIN_PER_PERSON))
        equipment_factor == IF 8 <= hour /\ hour <= 18 THEN 10
                            ELSE IF 6 <= hour /\ hour <= 20 THEN 5 ELSE 2
        equipment_gain == (EQUIPMENT_BASE_LOAD * floor_area * equipment_factor) \div 10
        lighting_factor == IF 7 <= hour /\ hour <= 19
                           THEN (IF FGt(occupancy, F(0)) THEN 8 ELSE 3)
                           ELSE 1
        lighting_gain == (LIGHTING_LOAD * floor_area * lighting_factor) \div 10
    IN  FAdd(FAdd(occupant_gain, F(equipment_gain)), F(lighting_gain))

_compute_solar_gains(p, radiation, hour) ==
    LET shading_factor == IF 11 <= hour /\ hour <= 15 THEN 5 ELSE 8
    IN  FDivK(FMul(FMul(radiation, F(p.A_solar)), F(shading_factor)), 10)

\* a proportional controller whose output is not clipped to the capacity
_hvac_controller_unclipped(p, T_i, setpoint, mode) ==
    LET error == FSub(setpoint, T_i)
        gain == FMul(error, F(10))
        heat == [Q |-> gain, mode_str |-> "heating"]
        cool == [Q |-> gain, mode_str |-> "cooling"]
        idle == [Q |-> F(0), mode_str |-> "idle"]
    IN  IF mode = 0 THEN [Q |-> F(0), mode_str |-> "off"]
        ELSE IF mode = 1 THEN
            (IF FGt(error, F(DEADBAND)) THEN heat ELSE idle)
        ELSE IF mode = 2 THEN
            (IF FLt(error, F(-DEADBAND)) THEN cool ELSE idle)
        ELSE
            (IF FGt(error, F(DEADBAND)) THEN heat
             ELSE IF FLt(error, F(-DEADBAND)) THEN cool
             ELSE idle)

\* error is in milli-degrees, so error * 10000 W/K is error.v * 10 W
_hvac_controller(p, T_i, setpoint, mode) ==
    LET error == FSub(setpoint, T_i)
        capacity == F(p.hvac_capacity_kw * 1000)
        gain == FMul(error, F(10))
        heat == [Q |-> PyMin(gain, capacity), mode_str |-> "heating"]
        cool == [Q |-> PyMax(gain, FNeg(capacity)), mode_str |-> "cooling"]
        idle == [Q |-> F(0), mode_str |-> "idle"]
    IN  IF mode = 0 THEN [Q |-> F(0), mode_str |-> "off"]
        ELSE IF mode = 1 THEN
            (IF FGt(error, F(DEADBAND)) THEN heat ELSE idle)
        ELSE IF mode = 2 THEN
            (IF FLt(error, F(-DEADBAND)) THEN cool ELSE idle)
        ELSE
            (IF FGt(error, F(DEADBAND)) THEN heat
             ELSE IF FLt(error, F(-DEADBAND)) THEN cool
             ELSE idle)

\* the temperature change over dt seconds: dT * dt, in milli-degrees
\*   Q [W] * dt [s] / C [kJ/K]  =  milli-K
_state_derivatives(p, T_i, T_w, T_ext, Q_solar, Q_int, Q_hvac, dt) ==
    LET Q_iw == FDivK(FMul(FSub(T_w, T_i), F(10)), p.R_iw)
        Q_we == FDivK(FMul(FSub(T_ext, T_w), F(10)), p.R_we)
        dT_i == FDivK(FMul(FAdd(FAdd(Q_iw, Q_hvac), Q_int), F(dt)), p.C_i)
        dT_w == FDivK(FMul(FAdd(FAdd(FNeg(Q_iw), Q_we), Q_solar), F(dt)), p.C_w)
    IN  [dT_i |-> dT_i, dT_w |-> dT_w]

(***************************************************************************)
(* State                                                                   *)
(***************************************************************************)
VARIABLES
    params,      \* ThermalModel2R2C.params of the model simulate runs on
    inputs,      \* the SimulationInputs object handed to simulate
    pc,          \* "idle" (no call in progress) or "loop" (inside simulate)
    loc,         \* local variables of the running simulate call
    outcomes,    \* what each finished call produced: a result or an exception
    calls,       \* number of simulate calls started
    sc,          \* the frame of ScenarioEngine.run_scenario, when one is served
    rq,          \* the frame of the POST /simulation/run handler, when one is served
    mpc,         \* the frame of MPCController.optimize, when one is called
    catalog,     \* the module-level list PRESET_SCENARIOS of scenarios.py
    call,        \* the frame of a direct call of one of the helper methods
    ws           \* the websocket module: the ConnectionManager, the handlers, a broadcast

vars == <<params, inputs, pc, loc, outcomes, calls, sc, rq, mpc, catalog, call, ws>>

NoCall == [op |-> "none", args |-> <<>>, result |-> <<>>]

\* the websockets that connect
Sockets == {"ws1", "ws2"}

\* the frame of websocket_endpoint for one websocket; update_task is
\* "unbound" until asyncio.create_task has been assigned to it
NoHandler ==
    [pc |-> "start", building_id |-> "", registered |-> FALSE,
     update_task |-> "unbound", exc |-> ""]

\* the frame of ConnectionManager.broadcast: the set object being iterated,
\* its size when the iterator was made, the connections yielded so far, the
\* one being sent to, dead_connections; stayed is a history variable, the
\* connections registered for the whole time since broadcast started
NoBroadcast ==
    [pc |-> "idle", building_id |-> "", obj |-> 0, si_used |-> 0, yielded |-> {},
     current |-> "", dead_connections |-> {}, stayed |-> {}, exc |-> ""]

\* sets holds the set objects created so far; active_connections maps a
\* building id to the index of its set object
NoWs ==
    [sets |-> <<>>, active_connections |-> <<>>,
     handler |-> [w \in Sockets |-> NoHandler], bc |-> NoBroadcast]

\* datetime.fromtimestamp(ts).isoformat(): the broken-down time
IsoFormat(ts) ==
    [day |-> ts \div 86400, hour |-> (ts \div 3600) % 24,
     minute |-> (ts \div 60) % 60, second |-> ts % 60]

NoLocals ==
    [n_steps |-> 0, dt |-> 0, i |-> 0, T_i |-> F(0), T_w |-> F(0),
     T_i_hist |-> <<>>, T_w_hist |-> <<>>, Q_hvac_hist |-> <<>>,
     energy_hist |-> <<>>, comfort_hist |-> <<>>, mode_hist |-> <<>>,
     cumulative_energy |-> F(0), cumulative_cost |-> F(0),
     heating_hours |-> 0, cooling_hours |-> 0, prev_mode |-> "idle",
     prices |-> <<>>,
     \* history variables: the mode code and the thermal power of each executed
     \* step, the electrical energy and the cost it added, and the number of
     \* Euler updates performed
     step_mode |-> <<>>, step_Q |-> <<>>, step_energy |-> <<>>, step_cost |-> <<>>,
     euler_steps |-> 0]

(***************************************************************************)
(* ThermalModel2R2C.simulate                                               *)
(***************************************************************************)
\* the accumulators and the per-step histories survive from the last call
SimulateLocals_stale(inp) ==
    LET n_steps == Len(inp.timestamps)
    IN  [loc EXCEPT
            !.n_steps = n_steps, !.dt = SimDt, !.i = 0,
            !.T_i = inp.initial_T_i, !.T_w = inp.initial_T_w,
            !.T_i_hist = <<inp.initial_T_i>>, !.T_w_hist = <<inp.initial_T_w>>,
            !.energy_hist = <<F(0)>>,
            !.prices = IF inp.electricity_price.some
                       THEN inp.electricity_price.arr
                       ELSE [k \in 1..n_steps |-> F(15)]]

\* lines 233-257: the locals before the loop
SimulateLocals(inp) ==
    LET n_steps == Len(inp.timestamps)
    IN  [NoLocals EXCEPT
            !.n_steps = n_steps, !.dt = SimDt, !.i = 0,
            !.T_i = inp.initial_T_i, !.T_w = inp.initial_T_w,
            !.T_i_hist = <<inp.initial_T_i>>, !.T_w_hist = <<inp.initial_T_w>>,
            !.energy_hist = <<F(0)>>,
            !.prices = IF inp.electricity_price.some
                       THEN inp.electricity_price.arr
                       ELSE [k \in 1..n_steps |-> F(15)]]

\* line 263: hour = int((ts / 3600) % 24)
HourOf(ts) == (ts \div 3600) % 24

\* the series the loop body indexes with i, in the order it reads them
\* (lines 268, 270, 277, 278, 290 before the Euler update; 310 after it)
ReadBeforeUpdate(inp, l) ==
    <<inp.solar_radiation, inp.occupancy, inp.setpoint, inp.hvac_mode, inp.T_ext>>

IndexErrorBeforeUpdate(inp, l) ==
    \E k \in 1..5 : l.i + 1 > Len(ReadBeforeUpdate(inp, l)[k])

IndexErrorAfterUpdate(inp, l) == l.i + 1 > Len(l.prices)

\* the cooling COP applied to heating power as well
ElectricalEnergy_singleCOP(p, Q_hvac) ==
    FDivK(FMul(FAbs(Q_hvac), F(1000)), p.COP_cool)
\* lines 302-306: electrical energy of one step, Wh
ElectricalEnergy(p, Q_hvac) ==
    IF FGt(Q_hvac, F(0))
    THEN FDivK(FMul(Q_hvac, F(1000)), p.COP_heat)
    ELSE FDivK(FMul(FAbs(Q_hvac), F(1000)), p.COP_cool)

\* no clamp: the integrated value is kept as it is
Clamp_none(lo, hi, x) == x
\* lines 299-300: max(lo, min(hi, x))
Clamp(lo, hi, x) == PyMax(lo, PyMin(hi, x))

\* lines 260-321: one iteration of the loop
SimulateBody(p, inp, l) ==
    LET k == l.i + 1
        hour == HourOf(inp.timestamps[k])
        Q_solar == _compute_solar_gains(p, inp.solar_radiation[k], hour)
        Q_int == _compute_internal_gains(inp.occupancy[k], hour, p.floor_area_m2)
        ctl == _hvac_controller(p, l.T_i, inp.setpoint[k], inp.hvac_mode[k])
        d == _state_derivatives(p, l.T_i, l.T_w, inp.T_ext[k], Q_solar, Q_int,
                                ctl.Q, l.dt)
        T_i == Clamp(F(10000), F(40000), FAdd(l.T_i, d.dT_i))
        T_w == Clamp(F(5000), F(45000), FAdd(l.T_w, d.dT_w))
        energy_kwh == ElectricalEnergy(p, ctl.Q)
        cumulative_energy == FAdd(l.cumulative_energy, energy_kwh)
        cost == FMul(energy_kwh, l.prices[k])
        violation == FAbs(FSub(T_i, inp.setpoint[k]))
    IN  [l EXCEPT
            !.i = l.i + 1,
            !.T_i = T_i, !.T_w = T_w,
            !.prev_mode = ctl.mode_str,
            !.heating_hours = IF ctl.mode_str = "heating" THEN @ + 1 ELSE @,
            !.cooling_hours = IF ctl.mode_str = "cooling" THEN @ + 1 ELSE @,
            !.cumulative_energy = cumulative_energy,
            !.cumulative_cost = FAdd(l.cumulative_cost, cost),
            !.T_i_hist = Append(@, Round2(T_i)),
            !.T_w_hist = Append(@, Round2(T_w)),
            !.Q_hvac_hist = Append(@, Round2(ctl.Q)),
            !.energy_hist = Append(@, Round2(cumulative_energy)),
            !.comfort_hist = Append(@, Round2(violation)),
            !.mode_hist = Append(@, ctl.mode_str),
            !.step_mode = Append(@, inp.hvac_mode[k]),
            !.step_Q = Append(@, ctl.Q),
            !.step_energy = Append(@, energy_kwh),
            !.step_cost = Append(@, cost),
            !.euler_steps = @ + 1]

\* a total taken from the reported cumulative series instead
TotalEnergy_sumOfSeries(l) == FSum(l.energy_hist)

\* line 334: total_energy = cumulative_energy
TotalEnergy(l) == l.cumulative_energy

\* lines 323-353: the SimulationResult built after the loop
SimulationResult(inp, l) ==
    LET total_energy == TotalEnergy(l)
        avg_violation == IF l.comfort_hist # <<>>
                         THEN FDivK(FSum(l.comfort_hist), Len(l.comfort_hist))
                         ELSE F(0)
        comfort_score == PyMax(F(0), FSub(F(100000), FMul(avg_violation, F(20))))
        peak_power == IF l.Q_hvac_hist # <<>>
                      THEN PyMaxSeq([k \in 1..Len(l.Q_hvac_hist) |-> FAbs(l.Q_hvac_hist[k])])
                      ELSE F(0)
    IN  [timestamps |-> [k \in 1..Len(inp.timestamps) |-> IsoFormat(inp.timestamps[k])],
         T_internal |-> l.T_i_hist,
         T_wall |-> l.T_w_hist,
         Q_hvac |-> l.Q_hvac_hist,
         energy_kwh |-> l.energy_hist,
         comfort_violation |-> l.comfort_hist,
         hvac_mode_actual |-> l.mode_hist,
         total_energy_kwh |-> Round2(total_energy),
         total_cost_eur |-> Round2(FDivK(l.cumulative_cost, 100)),
         avg_comfort_score |-> Round1(comfort_score),
         peak_power_kw |-> Round2(peak_power),
         heating_hours |-> l.heating_hours,
         cooling_hours |-> l.cooling_hours]

Returned(r) == [kind |-> "return", result |-> r]
Raised(exc, l) == [kind |-> "raise", exc |-> exc, euler_steps |-> l.euler_steps]

\* simulate(inputs) is entered
SimulateCall ==
    /\ pc = "idle"
    /\ calls < MaxCalls
    /\ pc' = "loop"
    /\ calls' = calls + 1
    /\ loc' = SimulateLocals(inputs)
    /\ UNCHANGED <<params, inputs, outcomes, sc, rq, mpc, catalog, call, ws>>

\* one iteration of  for i in range(n_steps - 1)
SimulateStep ==
    /\ pc = "loop"
    /\ loc.i < loc.n_steps - 1
    /\ ~IndexErrorBeforeUpdate(inputs, loc)
    /\ ~IndexErrorAfterUpdate(inputs, loc)
    /\ loc' = SimulateBody(params, inputs, loc)
    /\ UNCHANGED <<params, inputs, pc, outcomes, calls, sc, rq, mpc, catalog, call, ws>>

\* an iteration indexes a series past its end: IndexError leaves simulate
SimulateIndexError ==
    /\ pc = "loop"
    /\ loc.i < loc.n_steps - 1
    /\ \/ /\ IndexErrorBeforeUpdate(inputs, loc)
          /\ loc' = loc
       \/ /\ ~IndexErrorBeforeUpdate(inputs, loc)
          /\ IndexErrorAfterUpdate(inputs, loc)
          /\ loc' = [loc EXCEPT !.euler_steps = @ + 1]
    /\ outcomes' = Append(outcomes, Raised("IndexError", loc'))
    /\ pc' = "idle"
    /\ UNCHANGED <<params, inputs, calls, sc, rq, mpc, catalog, call, ws>>

\* the loop is over: the result is built and returned
SimulateReturn ==
    /\ pc = "loop"
    /\ loc.i >= loc.n_steps - 1
    /\ outcomes' = Append(outcomes, Returned(SimulationResult(inputs, loc)))
    /\ pc' = "idle"
    /\ UNCHANGED <<params, inputs, loc, calls, sc, rq, mpc, catalog, call, ws>>

(***************************************************************************)
(* ScenarioEngine                                                          *)
(***************************************************************************)
ScenarioType ==
    {"setpoint_change", "occupancy_pattern", "weather_forecast",
     "demand_response", "equipment_efficiency", "schedule_optimization"}

\* a builder registered for every member of the enum
_scenario_builders_all == ScenarioType

\* ScenarioEngine.__init__: the scenario types that have a builder
_scenario_builders ==
    {"setpoint_change", "occupancy_pattern", "weather_forecast",
     "demand_response", "equipment_efficiency"}

ELECTRICITY_COST_EUR == 15
PEAK_COST_EUR == 25
\* CARBON_FACTOR = 0.25 kg CO2 per kWh, in hundredths
CARBON_FACTOR == 25

\* dict.get(key, default) on a parameter bag
Get(bag, key, default) == IF key \in DOMAIN bag THEN bag[key] ELSE default

ScenarioConfig(id, type, parameters) ==
    [id |-> id, scenario_type |-> type, parameters |-> parameters]

\* parameter bags: temperatures in milli-degrees, factors and percentages in
\* percent, lists of hours as sets
PRESET_SCENARIOS == <<
    ScenarioConfig("setpoint-cooling-2c", "setpoint_change",
        [delta_temp |-> 2000, hours |-> {12, 13, 14, 15, 16, 17}]),
    ScenarioConfig("setpoint-night-setback", "setpoint_change",
        [delta_temp |-> -3000, hours |-> {22, 23, 0, 1, 2, 3, 4, 5}]),
    ScenarioConfig("setpoint-wider-deadband", "setpoint_change",
        [deadband_expansion |-> 1000]),
    ScenarioConfig("occupancy-wfh-50", "occupancy_pattern",
        [occupancy_factor |-> 50]),
    ScenarioConfig("occupancy-weekend", "occupancy_pattern",
        [occupancy_factor |-> 10, pre_condition_hours |-> 2]),
    ScenarioConfig("occupancy-holiday", "occupancy_pattern",
        [occupancy_factor |-> 0, min_temp |-> 15000, max_temp |-> 28000]),
    ScenarioConfig("weather-heatwave", "weather_forecast", [temp_delta |-> 5000]),
    ScenarioConfig("weather-coldsnap", "weather_forecast", [temp_delta |-> -5000]),
    ScenarioConfig("weather-mild", "weather_forecast",
        [temp_set |-> 22000, solar_factor |-> 30]),
    ScenarioConfig("dr-peak-shaving", "demand_response",
        [reduction_percent |-> 30, peak_hours |-> {14, 15, 16, 17},
         pre_cool_hours |-> {12, 13}, pre_cool_delta |-> -2000]),
    ScenarioConfig("dr-grid-signal", "demand_response",
        [reduction_percent |-> 50, duration_hours |-> 2, recovery_hours |-> 1]),
    ScenarioConfig("equipment-aged-cop", "equipment_efficiency",
        [cop_reduction_percent |-> 20]),
    ScenarioConfig("equipment-upgrade", "equipment_efficiency",
        [cop_increase_percent |-> 30]) >>

\* 25 + 8 sin((h - 6) pi / 12), clipped to [15, 38], for h = 0..23
BaselineTExt ==
    <<17000, 17273, 18072, 19343, 21000, 22929, 25000, 27071, 29000, 30657,
      31928, 32727, 33000, 32727, 31928, 30657, 29000, 27071, 25000, 22929,
      21000, 19343, 18072, 17273>>

\* 800 sin((h - 6) pi / 14) for 6 <= h <= 20, else 0, clipped to [0, 1000]
BaselineSolar ==
    <<0, 0, 0, 0, 0, 0, 0, 178, 347, 499, 625, 721, 780, 800, 780, 721, 625,
      499, 347, 178, 0, 0, 0, 0>>

\* datetime.now().replace(hour=0, minute=0, second=0).timestamp(): local
\* midnight of the tenth day of the epoch, for a server whose clock is tz
\* hours ahead of UTC
LocalMidnight(tz) == 10 * 86400 - tz * 3600

\* lines 344-400; i is the 0-based index, h = i % 24
_generate_baseline_inputs(base_date, duration_hours) ==
    LET n == duration_hours
        h(k) == (k - 1) % 24
    IN  [timestamps |-> [k \in 1..n |-> base_date + (k - 1) * 3600],
         T_ext |-> [k \in 1..n |-> F(BaselineTExt[h(k) + 1])],
         solar_radiation |-> [k \in 1..n |-> F(BaselineSolar[h(k) + 1])],
         occupancy |-> [k \in 1..n |->
                          IF 8 <= h(k) /\ h(k) <= 18 THEN F(50)
                          ELSE IF 7 <= h(k) /\ h(k) <= 19 THEN F(20) ELSE F(0)],
         setpoint |-> [k \in 1..n |-> F(23000)],
         hvac_mode |-> [k \in 1..n |-> 3],
         initial_T_i |-> F(23000),
         initial_T_w |-> F(23000),
         electricity_price |-> Prices([k \in 1..n |->
                          IF 14 <= h(k) /\ h(k) <= 18 THEN F(PEAK_COST_EUR)
                          ELSE F(ELECTRICITY_COST_EUR)])]

\* lines 534-546: a SimulationInputs holding copies of every array
_copy_inputs(inp) ==
    [timestamps |-> inp.timestamps, T_ext |-> inp.T_ext,
     solar_radiation |-> inp.solar_radiation, occupancy |-> inp.occupancy,
     setpoint |-> inp.setpoint, hvac_mode |-> inp.hvac_mode,
     initial_T_i |-> inp.initial_T_i, initial_T_w |-> inp.initial_T_w,
     electricity_price |-> inp.electricity_price]

\* what a builder leaves behind: the scenario inputs and the model to run
\* them on, and the baseline inputs and the baseline model as it leaves them
Built(scenario, model_modified, baseline, model) ==
    [scenario |-> scenario, model_modified |-> model_modified,
     baseline |-> baseline, model |-> model]

\* the hour taken from the position in the series instead of the timestamp
_build_setpoint_scenario_indexHour(baseline, p, model) ==
    LET scenario == _copy_inputs(baseline)
        delta == Get(p, "delta_temp", 0)
        hours == Get(p, "hours", {})
        new_setpoints == [k \in 1..Len(baseline.setpoint) |->
            IF (k - 1) % 24 \in hours
            THEN FAdd(baseline.setpoint[k], F(delta))
            ELSE baseline.setpoint[k]]
    IN  Built([scenario EXCEPT !.setpoint = new_setpoints], model, baseline, model)

\* lines 402-424
_build_setpoint_scenario(baseline, p, model) ==
    LET scenario == _copy_inputs(baseline)
        delta == Get(p, "delta_temp", 0)
        hours == Get(p, "hours", {})
        deadband == Get(p, "deadband_expansion", 0)
        new_setpoints == [k \in 1..Len(baseline.setpoint) |->
            LET hour == HourOf(baseline.timestamps[k])
                s1 == IF hour \in hours
                      THEN FAdd(baseline.setpoint[k], F(delta))
                      ELSE baseline.setpoint[k]
            IN  IF deadband > 0
                THEN FAdd(s1, F(RDiv((IF (k - 1) % 2 = 0 THEN deadband ELSE -deadband) * 3, 10)))
                ELSE s1]
    IN  Built([scenario EXCEPT !.setpoint = new_setpoints], model, baseline, model)

\* lines 426-459
_build_occupancy_scenario(baseline, p, model) ==
    LET scenario == _copy_inputs(baseline)
        factor == Get(p, "occupancy_factor", 100)
        both == /\ "min_temp" \in DOMAIN p /\ p.min_temp # 0
                /\ "max_temp" \in DOMAIN p /\ p.max_temp # 0
        occupancy == [k \in 1..Len(baseline.occupancy) |->
                         FDivK(FMul(baseline.occupancy[k], F(factor)), 100)]
        new_setpoints == [k \in 1..Len(baseline.setpoint) |->
            IF k <= Len(occupancy) /\ FLt(occupancy[k], F(5))
            THEN IF both
                 THEN (IF FGt(baseline.T_ext[k], F(25000))
                       THEN F(p.max_temp) ELSE F(p.min_temp))
                 ELSE (IF FGt(baseline.T_ext[k], F(25000))
                       THEN FAdd(baseline.setpoint[k], F(2000))
                       ELSE FSub(baseline.setpoint[k], F(2000)))
            ELSE baseline.setpoint[k]]
    IN  Built([scenario EXCEPT !.occupancy = occupancy, !.setpoint = new_setpoints],
              model, baseline, model)

\* lines 461-479
_build_weather_scenario(baseline, p, model) ==
    LET scenario == _copy_inputs(baseline)
        temp_delta == Get(p, "temp_delta", 0)
        solar_factor == Get(p, "solar_factor", 100)
        T_ext == [k \in 1..Len(baseline.T_ext) |->
                     IF "temp_set" \in DOMAIN p THEN F(p.temp_set)
                     ELSE FAdd(baseline.T_ext[k], F(temp_delta))]
        solar == [k \in 1..Len(baseline.solar_radiation) |->
                     FDivK(FMul(baseline.solar_radiation[k], F(solar_factor)), 100)]
    IN  Built([scenario EXCEPT !.T_ext = T_ext, !.solar_radiation = solar],
              model, baseline, model)

\* the peak-hour branch tested before the pre-cool branch
_build_demand_response_scenario_peakFirst(baseline, p, model) ==
    LET scenario == _copy_inputs(baseline)
        reduction_percent == Get(p, "reduction_percent", 0)
        peak_hours == Get(p, "peak_hours", {14, 15, 16, 17})
        pre_cool_hours == Get(p, "pre_cool_hours", {})
        pre_cool_delta == Get(p, "pre_cool_delta", -2000)
        new_setpoints == [k \in 1..Len(baseline.setpoint) |->
            LET hour == HourOf(baseline.timestamps[k])
            IN  IF hour \in peak_hours
                THEN (IF FGt(baseline.T_ext[k], F(25000))
                      THEN FAdd(baseline.setpoint[k], F(30 * reduction_percent))
                      ELSE FSub(baseline.setpoint[k], F(30 * reduction_percent)))
                ELSE IF hour \in pre_cool_hours
                THEN FAdd(baseline.setpoint[k], F(pre_cool_delta))
                ELSE baseline.setpoint[k]]
    IN  Built([scenario EXCEPT !.setpoint = new_setpoints], model, baseline, model)

\* lines 481-510; reduction = reduction_percent / 100, so 3 * reduction
\* degrees is 30 * reduction_percent milli-degrees
_build_demand_response_scenario(baseline, p, model) ==
    LET scenario == _copy_inputs(baseline)
        reduction_percent == Get(p, "reduction_percent", 0)
        peak_hours == Get(p, "peak_hours", {14, 15, 16, 17})
        pre_cool_hours == Get(p, "pre_cool_hours", {})
        pre_cool_delta == Get(p, "pre_cool_delta", -2000)
        new_setpoints == [k \in 1..Len(baseline.setpoint) |->
            LET hour == HourOf(baseline.timestamps[k])
            IN  IF hour \in pre_cool_hours
                THEN FAdd(baseline.setpoint[k], F(pre_cool_delta))
                ELSE IF hour \in peak_hours
                THEN (IF FGt(baseline.T_ext[k], F(25000))
                      THEN FAdd(baseline.setpoint[k], F(30 * reduction_percent))
                      ELSE FSub(baseline.setpoint[k], F(30 * reduction_percent)))
                ELSE baseline.setpoint[k]]
    IN  Built([scenario EXCEPT !.setpoint = new_setpoints], model, baseline, model)

\* the COPs of the model that was handed in are scaled in place
_build_efficiency_scenario_inPlace(baseline, p, model) ==
    LET scenario == _copy_inputs(baseline)
        cop_reduction == Get(p, "cop_reduction_percent", 0)
        cop_increase == Get(p, "cop_increase_percent", 0)
        scale(cop) == IF cop_reduction > 0 THEN RDiv(cop * (100 - cop_reduction), 100)
                      ELSE IF cop_increase > 0 THEN RDiv(cop * (100 + cop_increase), 100)
                      ELSE cop
        scaled == [model EXCEPT !.COP_cool = scale(@), !.COP_heat = scale(@)]
    IN  Built(scenario, scaled, baseline, scaled)

\* lines 512-532
_build_efficiency_scenario(baseline, p, model) ==
    LET scenario == _copy_inputs(baseline)
        model_copy == create_building_model("pleiades-a")
        cop_reduction == Get(p, "cop_reduction_percent", 0)
        cop_increase == Get(p, "cop_increase_percent", 0)
        scale(cop) == IF cop_reduction > 0 THEN RDiv(cop * (100 - cop_reduction), 100)
                      ELSE IF cop_increase > 0 THEN RDiv(cop * (100 + cop_increase), 100)
                      ELSE cop
    IN  Built(scenario,
              [model_copy EXCEPT !.COP_cool = scale(@), !.COP_heat = scale(@)],
              baseline, model)

\* the builder registered for a scenario type
ApplyBuilder(type, baseline, p, model) ==
    IF type = "setpoint_change" THEN _build_setpoint_scenario(baseline, p, model)
    ELSE IF type = "occupancy_pattern" THEN _build_occupancy_scenario(baseline, p, model)
    ELSE IF type = "weather_forecast" THEN _build_weather_scenario(baseline, p, model)
    ELSE IF type = "demand_response" THEN _build_demand_response_scenario(baseline, p, model)
    ELSE _build_efficiency_scenario(baseline, p, model)

\* lines 601-614: one chart point per timestamp
_format_timeline(result) ==
    LET n == IF Len(result.timestamps) <= Len(result.T_internal)
             THEN Len(result.timestamps) ELSE Len(result.T_internal)
    IN  [k \in 1..n |->
            [timestamp |-> result.timestamps[k],
             temperature |-> result.T_internal[k],
             energy_cumulative |-> IF k <= Len(result.energy_kwh)
                                   THEN result.energy_kwh[k] ELSE F(0),
             hvac_power |-> IF k > 1 /\ k - 1 <= Len(result.Q_hvac)
                            THEN result.Q_hvac[k - 1] ELSE F(0),
             comfort_violation |-> IF k > 1 /\ k - 1 <= Len(result.comfort_violation)
                                   THEN result.comfort_violation[k - 1] ELSE F(0)]]

\* a rule ladder without the default entry
_generate_recommendations_noDefault(baseline, scenario, savings_percent, comfort_impact) ==
    LET adopt == IF FGt(savings_percent, F(10000)) /\ FGt(comfort_impact, F(-5000))
                 THEN <<"recommend_implementation">>
                 ELSE IF FGt(savings_percent, F(5000)) /\ FLt(comfort_impact, F(-5000))
                 THEN <<"partial_implementation">>
                 ELSE <<>>
        stress == IF FLt(savings_percent, F(0)) THEN <<"stress_test">> ELSE <<>>
        peak == IF FGt(FMul(scenario.peak_power_kw, F(10)), FMul(baseline.peak_power_kw, F(12)))
                THEN <<"peak_demand_increases">>
                ELSE IF FLt(FMul(scenario.peak_power_kw, F(10)), FMul(baseline.peak_power_kw, F(8)))
                THEN <<"peak_demand_reduces">>
                ELSE <<>>
        annual == IF FGt(savings_percent, F(0)) THEN <<"annual_savings">> ELSE <<>>
    IN  adopt \o stress \o peak \o annual

\* lines 616-673: the rule ladder; each message is modelled by its rule
_generate_recommendations(baseline, scenario, savings_percent, comfort_impact) ==
    LET adopt == IF FGt(savings_percent, F(10000)) /\ FGt(comfort_impact, F(-5000))
                 THEN <<"recommend_implementation">>
                 ELSE IF FGt(savings_percent, F(5000)) /\ FLt(comfort_impact, F(-5000))
                 THEN <<"partial_implementation">>
                 ELSE <<>>
        stress == IF FLt(savings_percent, F(0)) THEN <<"stress_test">> ELSE <<>>
        peak == IF FGt(FMul(scenario.peak_power_kw, F(10)), FMul(baseline.peak_power_kw, F(12)))
                THEN <<"peak_demand_increases">>
                ELSE IF FLt(FMul(scenario.peak_power_kw, F(10)), FMul(baseline.peak_power_kw, F(8)))
                THEN <<"peak_demand_reduces">>
                ELSE <<>>
        annual == IF FGt(savings_percent, F(0)) THEN <<"annual_savings">> ELSE <<>>
        recommendations == adopt \o stress \o peak \o annual
    IN  IF recommendations = <<>> THEN <<"run_additional_scenarios">>
        ELSE recommendations

\* line 558: energy_savings / energy_baseline * 100, in thousandths of a
\* percent; both energies are multiples of 10 Wh
SavingsPercent(energy_savings, energy_baseline) ==
    IF FGt(energy_baseline, F(0))
    THEN F(10 * RDiv((energy_savings.v \div 10) * 10000, energy_baseline.v \div 10))
    ELSE F(0)

\* lines 548-599
_compare_results(baseline, scenario, config) ==
    LET energy_baseline == baseline.total_energy_kwh
        energy_scenario == scenario.total_energy_kwh
        energy_savings == FSub(energy_baseline, energy_scenario)
        savings_percent == SavingsPercent(energy_savings, energy_baseline)
        cost_savings == FSub(baseline.total_cost_eur, scenario.total_cost_eur)
        carbon_savings == FDivK(FMul(energy_savings, F(CARBON_FACTOR)), 100)
        comfort_impact == FSub(scenario.avg_comfort_score, baseline.avg_comfort_score)
    IN  [scenario_id |-> config.id,
         baseline_energy_kwh |-> Round2(energy_baseline),
         scenario_energy_kwh |-> Round2(energy_scenario),
         energy_savings_kwh |-> Round2(energy_savings),
         energy_savings_percent |-> Round1(savings_percent),
         baseline_cost_eur |-> Round2(baseline.total_cost_eur),
         scenario_cost_eur |-> Round2(scenario.total_cost_eur),
         cost_savings_eur |-> Round2(cost_savings),
         carbon_savings_kg |-> Round2(carbon_savings),
         baseline_comfort_score |-> Round1(baseline.avg_comfort_score),
         scenario_comfort_score |-> Round1(scenario.avg_comfort_score),
         comfort_impact |-> Round1(comfort_impact),
         baseline_timeline |-> _format_timeline(baseline),
         scenario_timeline |-> _format_timeline(scenario),
         recommendations |-> _generate_recommendations(baseline, scenario,
                                                      savings_percent, comfort_impact)]

(***************************************************************************)
(* The SimulationInputs objects simulate is called with                    *)
(***************************************************************************)
SeriesNames == {"T_ext", "solar_radiation", "occupancy", "setpoint",
                "hvac_mode", "electricity_price"}

\* a descriptor: every series is constant; all have length n, except the
\* series named odd (if any), which has length oddLen
BaseCase ==
    [n |-> 2, spacing |-> 3600, start |-> 0,
     T_ext |-> F(30000), solar |-> F(0), occ |-> F(0), setpoint |-> F(22000),
     mode |-> 3, T_i0 |-> F(22000), T_w0 |-> F(22000),
     priced |-> FALSE, price |-> F(25), odd |-> "none", oddLen |-> 0]

MkInputs(d) ==
    LET len(name) == IF d.odd = name THEN d.oddLen ELSE d.n
    IN  [timestamps |-> [k \in 1..d.n |-> d.start + (k - 1) * d.spacing],
         T_ext |-> [k \in 1..len("T_ext") |-> d.T_ext],
         solar_radiation |-> [k \in 1..len("solar_radiation") |-> d.solar],
         occupancy |-> [k \in 1..len("occupancy") |-> d.occ],
         setpoint |-> [k \in 1..len("setpoint") |-> d.setpoint],
         hvac_mode |-> [k \in 1..len("hvac_mode") |-> d.mode],
         initial_T_i |-> d.T_i0,
         initial_T_w |-> d.T_w0,
         electricity_price |-> IF d.priced
                               THEN Prices([k \in 1..len("electricity_price") |-> d.price])
                               ELSE NoPrices]

\* mode codes handed to the controller: the four modes and an unrecognized one
ModeCodes == {0, 1, 2, 3, 7}
NonFinite == {NaN, PInf, NInf}
StartTimes == {0, 12 * 3600}

\* aligned finite series: lengths, modes, initial and outdoor temperatures
DynamicsCases ==
    {[BaseCase EXCEPT !.n = n, !.mode = m, !.T_i0 = t, !.T_w0 = t,
                      !.T_ext = e, !.start = st] :
        n \in 0..MaxLen, m \in ModeCodes,
        t \in {F(18000), F(22000), F(22300), F(27000)},
        e \in {F(5000), F(30000)}, st \in StartTimes}

\* aligned series with gains, prices and a sample spacing other than one hour
GainCases ==
    {[BaseCase EXCEPT !.n = n, !.spacing = sp, !.solar = so, !.occ = oc,
                      !.priced = pr, !.T_i0 = F(25000)] :
        n \in 2..MaxLen, sp \in {1800, 3600}, so \in {F(0), F(500)},
        oc \in {F(0), F(50)}, pr \in BOOLEAN}

\* one consumed value is NaN, +inf or -inf
NonFiniteCases ==
    UNION {
        {[BaseCase EXCEPT !.n = n, !.T_ext = x],
         [BaseCase EXCEPT !.n = n, !.solar = x],
         [BaseCase EXCEPT !.n = n, !.occ = x],
         [BaseCase EXCEPT !.n = n, !.setpoint = x],
         [BaseCase EXCEPT !.n = n, !.priced = TRUE, !.price = x, !.T_i0 = F(25000)],
         [BaseCase EXCEPT !.n = n, !.T_i0 = x],
         [BaseCase EXCEPT !.n = n, !.T_w0 = x]} :
        n \in 2..MaxLen, x \in NonFinite}

\* one series shorter or longer than timestamps
ShapeCases ==
    {d \in {[BaseCase EXCEPT !.n = n, !.odd = s, !.oddLen = k, !.priced = TRUE,
                             !.T_i0 = F(25000)] :
                n \in 0..MaxLen, s \in SeriesNames, k \in 0..(MaxLen + 1)} :
        d.oddLen # d.n}

InputCases ==
    {MkInputs(d) : d \in DynamicsCases \cup GainCases \cup NonFiniteCases \cup ShapeCases}

\* a field of the frame that is not assigned yet is <<>>, an assigned one <<x>>
NoScenario ==
    [phase |-> "none", config |-> ScenarioConfig("", "", <<>>), building_id |-> "",
     duration_hours |-> 0, tz |-> 0,
     model |-> <<>>, baseline_inputs |-> <<>>, scenario_inputs |-> <<>>,
     model_modified |-> <<>>, baseline_result |-> <<>>, scenario_result |-> <<>>,
     comparison |-> <<>>, error |-> <<>>,
     \* the request the frame belongs to: its custom_parameters (None is <<>>)
     \* and its position in the sequence of requests served
     custom |-> <<>>, served |-> 0]

NoInputs ==
    [timestamps |-> <<>>, T_ext |-> <<>>, solar_radiation |-> <<>>,
     occupancy |-> <<>>, setpoint |-> <<>>, hvac_mode |-> <<>>,
     initial_T_i |-> F(22000), initial_T_w |-> F(22000),
     electricity_price |-> NoPrices]

NoRequest ==
    [phase |-> "none",
     request |-> [building_id |-> "", duration_hours |-> 0, setpoint |-> 0,
                  hvac_mode |-> ""],
     now |-> 0, response |-> <<>>]

\* MPCConfig: the defaults of the dataclass
MPCConfig ==
    [horizon_hours |-> 24, timestep_minutes |-> 60,
     comfort_band |-> 1000, min_temp |-> 19000, max_temp |-> 26000,
     max_heating_kw |-> 50, max_cooling_kw |-> 100, ramp_limit_kw |-> 20,
     COP_heat |-> 4000, COP_cool |-> 3500]

NoMPC ==
    [phase |-> "none", cvxpy_available |-> FALSE, config |-> MPCConfig,
     current_temp |-> 0, weather_forecast |-> <<>>, occupancy_forecast |-> <<>>,
     electricity_prices |-> <<>>, preferred_setpoint |-> 0, current_hour |-> 0,
     N |-> 0, T_ext |-> <<>>, occupancy |-> <<>>, prices |-> <<>>,
     first_solve_raised |-> FALSE, status |-> "", outcome |-> <<>>]

(***************************************************************************)
(* Specification: simulate is called on a model with an inputs object      *)
(***************************************************************************)
\* a ThermalParameters object with very small capacitances and a small plant
LightParameters ==
    [ThermalParameters EXCEPT !.C_i = 50, !.C_w = 100, !.hvac_capacity_kw = 5]

\* the parameters of the models simulate runs on
ParameterSets == {create_building_model(b) : b \in BuildingIds} \cup {LightParameters}

Init ==
    /\ params \in ParameterSets
    /\ inputs \in InputCases
    /\ pc = "idle"
    /\ loc = NoLocals
    /\ outcomes = <<>>
    /\ calls = 0
    /\ mpc = NoMPC
    /\ catalog = PRESET_SCENARIOS
    /\ ws = NoWs
    /\ call = NoCall
    /\ sc = NoScenario
    /\ rq = NoRequest

Next ==
    \/ SimulateCall
    \/ SimulateStep
    \/ SimulateIndexError
    \/ SimulateReturn

Spec == Init /\ [][Next]_vars

(***************************************************************************)
(* ScenarioEngine.run_scenario, as served for the two scenario endpoints   *)
(***************************************************************************)
\* the scenario simulations run on generated series of this many hours
MaxDuration == 3
\* hours by which the server's local time is ahead of UTC
TzOffsets == {0, 2}

\* ScenarioEngine.run_custom_scenario: one custom config per scenario type
CustomConfigs ==
    {ScenarioConfig("custom", "setpoint_change", [delta_temp |-> 1000, hours |-> {0, 1}]),
     ScenarioConfig("custom", "occupancy_pattern", [occupancy_factor |-> 0]),
     ScenarioConfig("custom", "weather_forecast", <<>>),
     ScenarioConfig("custom", "demand_response",
                    [reduction_percent |-> 100, peak_hours |-> {0, 22, 23}]),
     ScenarioConfig("custom", "equipment_efficiency", <<>>),
     ScenarioConfig("custom", "schedule_optimization", [delta_temp |-> 1000]),
     ScenarioConfig("custom", "schedule_optimization", <<>>),
     ScenarioConfig("custom", "not_a_scenario_type", <<>>)}

ScenarioConfigs == {PRESET_SCENARIOS[k] : k \in 1..Len(PRESET_SCENARIOS)} \cup CustomConfigs

\* lines 292-309: the model, the baseline, the builder; then either the
\* ValueError or the entry into model.simulate(baseline_inputs)
RunScenario ==
    /\ sc.phase = "request"
    /\ LET model == create_building_model(sc.building_id)
           baseline_inputs == _generate_baseline_inputs(LocalMidnight(sc.tz),
                                                        sc.duration_hours)
       IN  IF sc.config.scenario_type \notin _scenario_builders
           THEN /\ sc' = [sc EXCEPT !.phase = "raised",
                                    !.model = <<model>>,
                                    !.baseline_inputs = <<baseline_inputs>>,
                                    !.error = <<[exc |-> "ValueError",
                                                 message |-> "Unknown scenario type: ",
                                                 value |-> sc.config.scenario_type]>>]
                /\ UNCHANGED <<params, inputs, pc, loc, outcomes, calls, rq, mpc, catalog, call, ws>>
           ELSE LET b == ApplyBuilder(sc.config.scenario_type, baseline_inputs,
                                      sc.config.parameters, model)
                IN  /\ sc' = [sc EXCEPT !.phase = "baseline",
                                        !.model = <<b.model>>,
                                        !.baseline_inputs = <<b.baseline>>,
                                        !.scenario_inputs = <<b.scenario>>,
                                        !.model_modified = <<b.model_modified>>]
                    /\ params' = b.model
                    /\ inputs' = b.baseline
                    /\ pc' = "loop"
                    /\ loc' = SimulateLocals(b.baseline)
                    /\ calls' = calls + 1
                    /\ UNCHANGED <<outcomes, rq, mpc, catalog, call, ws>>

\* line 309 returns, line 310 enters model_modified.simulate(scenario_inputs)
ScenarioSimulateModified ==
    /\ sc.phase = "baseline"
    /\ pc = "idle"
    /\ Len(outcomes) = 1
    /\ outcomes[1].kind = "return"
    /\ sc' = [sc EXCEPT !.phase = "scenario",
                        !.baseline_result = <<outcomes[1].result>>]
    /\ params' = sc.model_modified[1]
    /\ inputs' = sc.scenario_inputs[1]
    /\ pc' = "loop"
    /\ loc' = SimulateLocals(sc.scenario_inputs[1])
    /\ calls' = calls + 1
    /\ UNCHANGED <<outcomes, rq, mpc, catalog, call, ws>>

\* line 310 returns; lines 313-315: the comparison is built and returned
ScenarioCompare ==
    /\ sc.phase = "scenario"
    /\ pc = "idle"
    /\ Len(outcomes) = 2
    /\ outcomes[2].kind = "return"
    /\ sc' = [sc EXCEPT !.phase = "done",
                        !.scenario_result = <<outcomes[2].result>>,
                        !.comparison = <<_compare_results(sc.baseline_result[1],
                                             outcomes[2].result, sc.config)>>]
    /\ UNCHANGED <<params, inputs, pc, loc, outcomes, calls, rq, mpc, catalog, call, ws>>

InitScenario ==
    /\ params = ThermalParameters
    /\ inputs = NoInputs
    /\ pc = "idle"
    /\ loc = NoLocals
    /\ outcomes = <<>>
    /\ calls = 0
    /\ mpc = NoMPC
    /\ catalog = PRESET_SCENARIOS
    /\ ws = NoWs
    /\ call = NoCall
    /\ \E cfg \in ScenarioConfigs, b \in BuildingIds, n \in 1..MaxDuration,
          tz \in TzOffsets :
          sc = [NoScenario EXCEPT !.phase = "request", !.config = cfg,
                                  !.building_id = b, !.duration_hours = n,
                                  !.tz = tz]
    /\ rq = NoRequest

NextScenario ==
    \/ RunScenario
    \/ SimulateStep
    \/ SimulateReturn
    \/ ScenarioSimulateModified
    \/ ScenarioCompare

SpecScenario == InitScenario /\ [][NextScenario]_vars

(***************************************************************************)
(* POST /simulation/run                                                    *)
(***************************************************************************)
\* 25 + 8 sin((h - 6) pi / 12) for h = 0..23 (the endpoint does not clip)
RunTExt == BaselineTExt
\* max(0, 800 sin((h - 6) pi / 14)) for h = 0..23
RunSolar == BaselineSolar

\* lines 171-172: hvac_mode_map.get(request.hvac_mode, 3)
hvac_mode_map_get(name) ==
    IF name = "off" THEN 0
    ELSE IF name = "heat" THEN 1
    ELSE IF name = "cool" THEN 2
    ELSE IF name = "auto" THEN 3
    ELSE 3

\* lines 152-183: the inputs the handler synthesizes; start is the timestamp
\* of datetime.now() with minute, second and microsecond cleared
RunSimulationInputs(request, start) ==
    LET n == request.duration_hours
        h(k) == (k - 1) % 24
    IN  [timestamps |-> [k \in 1..n |-> start + (k - 1) * 3600],
         T_ext |-> [k \in 1..n |-> F(RunTExt[h(k) + 1])],
         solar_radiation |-> [k \in 1..n |-> F(RunSolar[h(k) + 1])],
         occupancy |-> [k \in 1..n |->
                          IF 8 <= h(k) /\ h(k) <= 18 THEN F(50) ELSE F(0)],
         setpoint |-> [k \in 1..n |-> F(request.setpoint)],
         hvac_mode |-> [k \in 1..n |-> hvac_mode_map_get(request.hvac_mode)],
         initial_T_i |-> F(request.setpoint),
         initial_T_w |-> F(request.setpoint),
         electricity_price |-> NoPrices]

\* lines 188-199
SimulationResponse(request, result) ==
    [building_id |-> request.building_id,
     duration_hours |-> request.duration_hours,
     timestamps |-> result.timestamps,
     temperatures |-> result.T_internal,
     energy_kwh |-> result.energy_kwh,
     hvac_power |-> result.Q_hvac,
     total_energy_kwh |-> result.total_energy_kwh,
     total_cost_eur |-> result.total_cost_eur,
     comfort_score |-> result.avg_comfort_score,
     peak_power_kw |-> result.peak_power_kw]

\* mode names a request carries: the four modes and an unrecognized one
ModeNames == {"off", "heat", "cool", "auto", "eco"}
\* the hour (UTC) at which the request arrives, on the tenth day of the epoch
NowHours == {0, 13}

\* lines 146-186: the model and the inputs are built, model.simulate is entered
RunSimulation ==
    /\ rq.phase = "request"
    /\ rq' = [rq EXCEPT !.phase = "simulate"]
    /\ params' = create_building_model(rq.request.building_id)
    /\ inputs' = RunSimulationInputs(rq.request, rq.now)
    /\ pc' = "loop"
    /\ loc' = SimulateLocals(RunSimulationInputs(rq.request, rq.now))
    /\ calls' = calls + 1
    /\ UNCHANGED <<outcomes, sc, mpc, catalog, call, ws>>

\* line 186 returns; lines 188-199: the response
RunSimulationRespond ==
    /\ rq.phase = "simulate"
    /\ pc = "idle"
    /\ Len(outcomes) = 1
    /\ outcomes[1].kind = "return"
    /\ rq' = [rq EXCEPT !.phase = "done",
                        !.response = <<SimulationResponse(rq.request, outcomes[1].result)>>]
    /\ UNCHANGED <<params, inputs, pc, loc, outcomes, calls, sc, mpc, catalog, call, ws>>

InitRun ==
    /\ params = ThermalParameters
    /\ inputs = NoInputs
    /\ pc = "idle"
    /\ loc = NoLocals
    /\ outcomes = <<>>
    /\ calls = 0
    /\ mpc = NoMPC
    /\ catalog = PRESET_SCENARIOS
    /\ ws = NoWs
    /\ call = NoCall
    /\ sc = NoScenario
    /\ \E b \in BuildingIds, n \in 1..MaxDuration, t \in {16000, 22000, 30000},
          m \in ModeNames, hr \in NowHours :
          rq = [NoRequest EXCEPT
                   !.phase = "request",
                   !.request = [building_id |-> b, duration_hours |-> n,
                                setpoint |-> t, hvac_mode |-> m],
                   !.now = 10 * 86400 + hr * 3600]

NextRun ==
    \/ RunSimulation
    \/ SimulateStep
    \/ SimulateReturn
    \/ RunSimulationRespond

SpecRun == InitRun /\ [][NextRun]_vars

(***************************************************************************)
(* MPCController (mpc_controller.py).  Temperatures are in milli-degrees,  *)
(* thermal power in W, electrical energy in Wh, prices in 1/1000 EUR per   *)
(* kWh, costs in 1/10000 EUR, percentages and scores in tenths.            *)
(***************************************************************************)
Min2(a, b) == IF a <= b THEN a ELSE b
Max2(a, b) == IF a >= b THEN a ELSE b
Abs(x) == IF x < 0 THEN -x ELSE x

\* list[:n]
Take(s, n) == SubSeq(s, 1, Min2(Len(s), n))

RECURSIVE SumSeq(_)
SumSeq(s) == IF s = <<>> THEN 0 ELSE SumSeq(SubSeq(s, 1, Len(s) - 1)) + s[Len(s)]

\* prices[j] > np.mean(prices) * 1.2
HighPrice(prices, j) == 5 * prices[j] * Len(prices) > 6 * SumSeq(prices)

\* np.exp(-3600 / 10000), in ten-thousandths
SimpleDecay == 6977

\* lines 278-307: the target setpoint of step k (1-based)
SimpleTarget(T_ext, occupancy, prices, preferred_setpoint, N, k) ==
    LET is_occupied == occupancy[k] > 5
        is_high_price == HighPrice(prices, k)
        next_high_price == k < N /\ HighPrice(prices, k + 1)
        cooling_season == T_ext[k] > 25000
        t0 == IF is_occupied THEN preferred_setpoint
              ELSE IF cooling_season THEN preferred_setpoint + 2000
              ELSE preferred_setpoint - 2000
        t1 == IF next_high_price /\ ~is_high_price
              THEN (IF cooling_season THEN t0 - 1500 ELSE t0 + 1500)
              ELSE t0
    IN  IF is_high_price /\ ~is_occupied
        THEN (IF cooling_season THEN t1 + 1500 ELSE t1 - 1500)
        ELSE t1

\* lines 310-317: proportional control, 10 kW per degree of error
SimplePower(cfg, error) ==
    IF Abs(error) > 500
    THEN (IF error > 0 THEN Min2(error * 10, cfg.max_heating_kw * 1000)
          ELSE Max2(error * 10, -(cfg.max_cooling_kw * 1000)))
    ELSE 0

\* lines 322-327: the temperature after the step
SimpleUpdate(cfg, T_current, T_ext_k, power) ==
    LET T_next == RDiv(SimpleDecay * T_current + (10000 - SimpleDecay) * T_ext_k
                       + 7200 * power, 10000)
    IN  Max2(cfg.min_temp - 1000, Min2(cfg.max_temp + 1000, T_next))

\* lines 277-328: the loop, from step k on
RECURSIVE SimpleLoop(_, _, _, _, _, _, _, _)
SimpleLoop(cfg, T_ext, occupancy, prices, preferred_setpoint, N, k, st) ==
    IF k > N THEN st
    ELSE LET target == SimpleTarget(T_ext, occupancy, prices, preferred_setpoint, N, k)
             power == SimplePower(cfg, target - st.T_current)
             T_current == SimpleUpdate(cfg, st.T_current, T_ext[k], power)
         IN  SimpleLoop(cfg, T_ext, occupancy, prices, preferred_setpoint, N, k + 1,
                        [T_current |-> T_current,
                         opt_temps |-> Append(st.opt_temps, T_current),
                         opt_power |-> Append(st.opt_power, power),
                         opt_setpoints |-> Append(st.opt_setpoints, target)])

\* a conversion that yields one setpoint per entry of the temperature trajectory
_temps_to_setpoints_allTemps(cfg, temps, powers, occupancy) ==
    [i \in 1..Len(temps) |->
        RoundHalfEven(Max2(cfg.min_temp, Min2(cfg.max_temp, temps[i])), 100)]

\* lines 409-426
_temps_to_setpoints(cfg, temps, powers, occupancy) ==
    [i \in 1..Min2(Len(temps) - 1, Len(powers)) |->
        LET sp == IF powers[i] > 5000 THEN temps[i] + 500
                  ELSE IF powers[i] < -5000 THEN temps[i] - 500
                  ELSE temps[i]
        IN  RoundHalfEven(Max2(cfg.min_temp, Min2(cfg.max_temp, sp)), 100)]

\* lines 348-355: electrical energy of one step, Wh
MPCEnergy(cfg, Q) ==
    IF Q > 0 THEN RDiv(Q * 1000, cfg.COP_heat) ELSE RDiv(Abs(Q) * 1000, cfg.COP_cool)

\* lines 335-407, for T_ext, occupancy and prices of N entries each
_build_result(cfg, opt_temps, opt_power, T_ext, occupancy, prices, preferred_setpoint, current_hour, N, status) ==
    LET opt_energy == [k \in 1..Len(opt_power) |-> MPCEnergy(cfg, opt_power[k])]
        total_energy == SumSeq(opt_energy)
        total_cost == RDiv(SumSeq([k \in 1..Min2(Len(opt_energy), Len(prices)) |->
                                      opt_energy[k] * prices[k]]), 100)
        baseline_energy == RDiv(SumSeq([k \in 1..Len(T_ext) |->
                               Abs(preferred_setpoint - T_ext[k])]) * 5000, cfg.COP_cool)
        baseline_cost == RDiv(baseline_energy * SumSeq(prices), 100 * Len(prices))
        savings_percent == IF baseline_cost > 0
                           THEN RDiv((baseline_cost - total_cost) * 1000, baseline_cost)
                           ELSE 0
        violations == SumSeq([k \in 1..Min2(Len(opt_temps) - 1, Len(occupancy)) |->
                          IF occupancy[k] > 5 THEN Abs(opt_temps[k] - preferred_setpoint)
                          ELSE 0])
        comfort_score == Max2(0, 100000 - violations * 5)
        opt_setpoints == _temps_to_setpoints(cfg, opt_temps, opt_power, occupancy)
        schedule == [k \in 1..N |->
                        [hour |-> (current_hour + k - 1) % 24,
                         timestamp |-> k - 1,
                         setpoint |-> RoundHalfEven(opt_setpoints[k], 100),
                         predicted_temp |-> RoundHalfEven(opt_temps[k], 100),
                         predicted_power_kw |-> RoundHalfEven(opt_power[k], 100),
                         electricity_price |-> prices[k],
                         occupancy |-> occupancy[k],
                         outdoor_temp |-> RoundHalfEven(T_ext[k], 100)]]
    IN  [optimal_setpoints |-> opt_setpoints,
         predicted_temps |-> [k \in 1..Len(opt_temps) |-> RoundHalfEven(opt_temps[k], 10)],
         predicted_power |-> [k \in 1..Len(opt_power) |-> RoundHalfEven(opt_power[k], 10)],
         predicted_energy |-> [k \in 1..Len(opt_energy) |-> RoundHalfEven(opt_energy[k], 10)],
         total_energy_kwh |-> RoundHalfEven(total_energy, 10),
         total_cost_eur |-> RoundHalfEven(total_cost, 100),
         baseline_energy_kwh |-> RoundHalfEven(baseline_energy, 10),
         baseline_cost_eur |-> RoundHalfEven(baseline_cost, 100),
         cost_savings_percent |-> savings_percent,
         comfort_score |-> RoundHalfEven(comfort_score, 100),
         optimization_status |-> status,
         horizon_hours |-> N,
         schedule |-> schedule]

MPCReturned(result, path, targets) ==
    [kind |-> "return", result |-> result, path |-> path, targets |-> targets]
MPCRaised(exc) == [kind |-> "raise", exc |-> exc]

\* lines 253-333: occupancy[k] and prices[k] are indexed for every k < N
_optimize_simple(cfg, current_temp, T_ext, occupancy, prices, preferred_setpoint, current_hour, N) ==
    IF Len(occupancy) < N \/ Len(prices) < N THEN MPCRaised("IndexError")
    ELSE LET st == SimpleLoop(cfg, T_ext, occupancy, prices, preferred_setpoint, N, 1,
                              [T_current |-> current_temp,
                               opt_temps |-> <<current_temp>>,
                               opt_power |-> <<>>, opt_setpoints |-> <<>>])
         IN  MPCReturned(_build_result(cfg, st.opt_temps, st.opt_power, T_ext,
                                       occupancy, prices, preferred_setpoint,
                                       current_hour, N, "heuristic"),
                         "heuristic", st.opt_setpoints)

\* the convex problem of _optimize_cvxpy (lines 171-228)
\* a = np.exp(-dt / tau) with tau = 5e6 * 0.002, in ten-thousandths
CvxDecay == 6977
\* c = 0.002 * b * 1000 degrees per kW, in ten-thousandths
CvxControl == 6046

\* line 201: T[k+1] = a T[k] + b T_ext[k] + c Q[k]
RECURSIVE CvxTrajectory(_, _, _)
CvxTrajectory(current_temp, T_ext, Q) ==
    IF Q = <<>> THEN <<current_temp>>
    ELSE LET T == CvxTrajectory(current_temp, T_ext, SubSeq(Q, 1, Len(Q) - 1))
             k == Len(Q)
         IN  Append(T, RDiv(CvxDecay * T[k] + (10000 - CvxDecay) * T_ext[k]
                            + CvxControl * Q[k], 10000))

\* the power levels of the trajectories considered for the solver, W
SolverPowers == {-10000, 0, 10000}

\* the trajectories that satisfy the hard constraints (lines 196-201 and
\* 217-228); the comfort constraints are soft
FeasibleSolutions(cfg, current_temp, T_ext, N) ==
    {sol \in {[T |-> CvxTrajectory(current_temp, T_ext, Q), Q |-> Q] :
                 Q \in [1..N -> SolverPowers]} :
        /\ \A k \in 1..(N + 1) :
              sol.T[k] >= cfg.min_temp - 2000 /\ sol.T[k] <= cfg.max_temp + 2000
        /\ \A k \in 1..N :
              sol.Q[k] >= -(cfg.max_cooling_kw * 1000) /\ sol.Q[k] <= cfg.max_heating_kw * 1000
        /\ \A k \in 1..(N - 1) : Abs(sol.Q[k + 1] - sol.Q[k]) <= cfg.ramp_limit_kw * 1000}

\* problem.status after a solve that did not raise
SolverStatuses(feasible) ==
    IF feasible THEN {"optimal", "optimal_inaccurate", "user_limit"}
    ELSE {"infeasible", "infeasible_inaccurate"}

\* what optimize leaves to its caller (lines 152-158 after a result)
MPCDone(frame, out) ==
    [frame EXCEPT !.phase = IF out.kind = "return" THEN "done" ELSE "raised",
                  !.outcome = <<out>>]

\* lines 134-150 and, with cvxpy, lines 171-231: N, the slices, and either
\* the heuristic or the construction of the problem
Optimize ==
    /\ mpc.phase = "request"
    /\ LET N == Min2(Len(mpc.weather_forecast), mpc.config.horizon_hours)
           T_ext == Take(mpc.weather_forecast, N)
           occupancy == Take(mpc.occupancy_forecast, N)
           prices == Take(mpc.electricity_prices, N)
           frame == [mpc EXCEPT !.N = N, !.T_ext = T_ext, !.occupancy = occupancy,
                                !.prices = prices]
       IN  IF ~mpc.cvxpy_available
           THEN mpc' = MPCDone(frame,
                           _optimize_simple(mpc.config, mpc.current_temp, T_ext, occupancy,
                                            prices, mpc.preferred_setpoint,
                                            mpc.current_hour, N))
           ELSE IF Len(prices) # N
           THEN mpc' = MPCDone(frame, MPCRaised("ValueError"))
           ELSE IF Len(occupancy) < N
           THEN mpc' = MPCDone(frame, MPCRaised("IndexError"))
           ELSE mpc' = [frame EXCEPT !.phase = "solve_osqp"]
    /\ UNCHANGED <<params, inputs, pc, loc, outcomes, calls, sc, rq, catalog, call, ws>>

\* line 233: problem.solve(solver=cp.OSQP, ...) ends with a status or raises
SolveOSQP ==
    /\ mpc.phase = "solve_osqp"
    /\ \/ \E s \in SolverStatuses(FeasibleSolutions(mpc.config, mpc.current_temp,
                                                   mpc.T_ext, mpc.N) # {}) :
             mpc' = [mpc EXCEPT !.phase = "solved", !.status = s]
       \/ mpc' = [mpc EXCEPT !.phase = "solve_default", !.first_solve_raised = TRUE]
    /\ UNCHANGED <<params, inputs, pc, loc, outcomes, calls, sc, rq, catalog, call, ws>>

\* lines 234-235: the retry with the default solver; what it raises leaves
\* optimize
SolveDefault ==
    /\ mpc.phase = "solve_default"
    /\ \/ \E s \in SolverStatuses(FeasibleSolutions(mpc.config, mpc.current_temp,
                                                   mpc.T_ext, mpc.N) # {}) :
             mpc' = [mpc EXCEPT !.phase = "solved", !.status = s]
       \/ mpc' = MPCDone(mpc, MPCRaised("SolverError"))
    /\ UNCHANGED <<params, inputs, pc, loc, outcomes, calls, sc, rq, catalog, call, ws>>

\* lines 237-251: the fallback on a status that is not optimal, else the
\* result built from T.value and Q.value
AfterSolve ==
    /\ mpc.phase = "solved"
    /\ IF mpc.status \notin {"optimal", "optimal_inaccurate"}
       THEN mpc' = MPCDone(mpc,
                       _optimize_simple(mpc.config, mpc.current_temp, mpc.T_ext,
                                        mpc.occupancy, mpc.prices, mpc.preferred_setpoint,
                                        mpc.current_hour, mpc.N))
       ELSE \E sol \in FeasibleSolutions(mpc.config, mpc.current_temp, mpc.T_ext, mpc.N) :
               mpc' = MPCDone(mpc,
                          MPCReturned(_build_result(mpc.config, sol.T, sol.Q, mpc.T_ext,
                                          mpc.occupancy, mpc.prices, mpc.preferred_setpoint,
                                          mpc.current_hour, mpc.N, mpc.status),
                                      "solver", <<>>))
    /\ UNCHANGED <<params, inputs, pc, loc, outcomes, calls, sc, rq, catalog, call, ws>>

\* longest forecast handed to optimize
MaxForecast == 3

\* forecast values by 0-based step: outdoor temperature, occupants, price
WeatherPatterns == {[k \in 0..MaxForecast |-> 30000], [k \in 0..MaxForecast |-> 20000]}
OccupancyPatterns ==
    {[k \in 0..MaxForecast |-> IF k % 2 = 0 THEN 50 ELSE 0], [k \in 0..MaxForecast |-> 0]}
PricePatterns ==
    {[k \in 0..MaxForecast |-> IF k % 3 = 1 THEN 250 ELSE 100], [k \in 0..MaxForecast |-> 180]}

Forecast(pattern, n) == [k \in 1..n |-> pattern[k - 1]]

\* the lengths of the weather, occupancy and price forecasts: equal, or one
\* of the last two shorter or longer than the weather forecast
ForecastLengths ==
    {l \in [w : 1..MaxForecast, o : 0..MaxForecast, p : 0..MaxForecast] :
        l.o = l.w \/ l.p = l.w}

InitMPC ==
    /\ params = ThermalParameters
    /\ inputs = NoInputs
    /\ pc = "idle"
    /\ loc = NoLocals
    /\ outcomes = <<>>
    /\ calls = 0
    /\ sc = NoScenario
    /\ rq = NoRequest
    /\ catalog = PRESET_SCENARIOS
    /\ ws = NoWs
    /\ call = NoCall
    /\ \E l \in ForecastLengths, w \in WeatherPatterns, o \in OccupancyPatterns,
          p \in PricePatterns, h \in {2, 24}, t \in {16000, 21000, 25000},
          avail \in BOOLEAN :
          mpc = [NoMPC EXCEPT
                    !.phase = "request", !.cvxpy_available = avail,
                    !.config = [MPCConfig EXCEPT !.horizon_hours = h],
                    !.current_temp = t,
                    !.weather_forecast = Forecast(w, l.w),
                    !.occupancy_forecast = Forecast(o, l.o),
                    !.electricity_prices = Forecast(p, l.p),
                    !.preferred_setpoint = 22000,
                    !.current_hour = 9]

NextMPC ==
    \/ Optimize
    \/ SolveOSQP
    \/ SolveDefault
    \/ AfterSolve

SpecMPC == InitMPC /\ [][NextMPC]_vars

(***************************************************************************)
(* run_scenario on the "setpoint-night-setback" preset for one day         *)
(***************************************************************************)
InitNightSetback ==
    /\ params = ThermalParameters
    /\ inputs = NoInputs
    /\ pc = "idle"
    /\ loc = NoLocals
    /\ outcomes = <<>>
    /\ calls = 0
    /\ rq = NoRequest
    /\ mpc = NoMPC
    /\ catalog = PRESET_SCENARIOS
    /\ ws = NoWs
    /\ call = NoCall
    /\ \E b \in BuildingIds, tz \in TzOffsets :
          sc = [NoScenario EXCEPT !.phase = "request",
                                  !.config = PRESET_SCENARIOS[2],
                                  !.building_id = b, !.duration_hours = 24,
                                  !.tz = tz]

SpecNightSetback == InitNightSetback /\ [][NextScenario]_vars

(***************************************************************************)
(* POST /simulation/scenarios/run, served request after request            *)
(***************************************************************************)
\* number of requests served one after the other
MaxRequests == 2

\* ScenarioEngine.get_scenario_by_id: the object of the list, or None (<<>>)
get_scenario_by_id(scenario_id) ==
    LET hits == {k \in 1..Len(catalog) : catalog[k].id = scenario_id}
    IN  IF hits = {} THEN <<>>
        ELSE <<CHOOSE k \in hits : \A j \in hits : k <= j>>

\* dict.update
Update(bag, other) ==
    [key \in (DOMAIN bag) \cup (DOMAIN other) |->
        IF key \in DOMAIN other THEN other[key] ELSE bag[key]]

\* custom_parameters of a request: None, or a bag
CustomParameters ==
    {<<>>, <<[delta_temp |-> 5000]>>, <<[occupancy_factor |-> 0]>>}

\* scenario ids the requests carry: three presets and an id not in the list
ScenarioIds ==
    {"setpoint-night-setback", "occupancy-wfh-50", "equipment-upgrade", "no-such-scenario"}

\* lines 232-251 of api/v1/simulation.py, up to the call of engine.run_scenario
PostScenariosRun ==
    /\ sc.phase \in {"none", "done", "not_found"}
    /\ sc.served < MaxRequests
    /\ \E id \in ScenarioIds, custom \in CustomParameters :
          LET hit == get_scenario_by_id(id)
              frame == [NoScenario EXCEPT !.served = sc.served + 1, !.custom = custom,
                                          !.building_id = "pleiades-c",
                                          !.duration_hours = MaxDuration]
          IN  IF hit = <<>>
              THEN /\ sc' = [frame EXCEPT !.phase = "not_found"]
                   /\ catalog' = catalog
              ELSE LET k == hit[1]
                       parameters == IF custom # <<>>
                                     THEN Update(catalog[k].parameters, custom[1])
                                     ELSE catalog[k].parameters
                   IN  /\ catalog' = [catalog EXCEPT ![k].parameters = parameters]
                       /\ sc' = [frame EXCEPT !.phase = "request",
                                              !.config = catalog'[k]]
    /\ outcomes' = <<>>
    /\ calls' = 0
    /\ UNCHANGED <<params, inputs, pc, loc, rq, mpc, call, ws>>

InitScenarioApi ==
    /\ params = ThermalParameters
    /\ inputs = NoInputs
    /\ pc = "idle"
    /\ loc = NoLocals
    /\ outcomes = <<>>
    /\ calls = 0
    /\ mpc = NoMPC
    /\ catalog = PRESET_SCENARIOS
    /\ ws = NoWs
    /\ call = NoCall
    /\ sc = NoScenario
    /\ rq = NoRequest

NextScenarioApi ==
    \/ PostScenariosRun
    \/ RunScenario
    \/ SimulateStep
    \/ SimulateReturn
    \/ ScenarioSimulateModified
    \/ ScenarioCompare

SpecScenarioApi == InitScenarioApi /\ [][NextScenarioApi]_vars

(***************************************************************************)
(* ScenarioEngine._generate_recommendations, called on drawn arguments      *)
(***************************************************************************)
\* savings_percent (thousandths of a percent) and comfort_impact
\* (thousandths of a point) around the thresholds of the rules
SavingsValues ==
    {NaN, PInf, F(-5000), F(0), F(3000), F(5000), F(7000), F(10000), F(15000)}
ComfortImpacts == {NaN, F(-10000), F(-5000), F(-2000), F(0), F(3000)}
\* peak_power_kw of the two results, W
BaselinePeaks == {F(0), F(40000), F(100000)}
ScenarioPeaks == {F(0), F(30000), F(32000), F(40000), F(48000), F(50000), F(130000)}

GenerateRecommendations ==
    /\ call.op = "_generate_recommendations"
    /\ call.result = <<>>
    /\ call' = [call EXCEPT !.result =
                   <<_generate_recommendations(call.args.baseline, call.args.scenario,
                                               call.args.savings_percent,
                                               call.args.comfort_impact)>>]
    /\ UNCHANGED <<params, inputs, pc, loc, outcomes, calls, sc, rq, mpc, catalog, ws>>

InitRecommendations ==
    /\ params = ThermalParameters
    /\ inputs = NoInputs
    /\ pc = "idle"
    /\ loc = NoLocals
    /\ outcomes = <<>>
    /\ calls = 0
    /\ sc = NoScenario
    /\ rq = NoRequest
    /\ mpc = NoMPC
    /\ catalog = PRESET_SCENARIOS
    /\ ws = NoWs
    /\ \E b \in BaselinePeaks, s \in ScenarioPeaks, sv \in SavingsValues,
          ci \in ComfortImpacts :
          call = [op |-> "_generate_recommendations",
                  args |-> [baseline |-> [peak_power_kw |-> b],
                            scenario |-> [peak_power_kw |-> s],
                            savings_percent |-> sv, comfort_impact |-> ci],
                  result |-> <<>>]

NextRecommendations == GenerateRecommendations

SpecRecommendations == InitRecommendations /\ [][NextRecommendations]_vars

(***************************************************************************)
(* ThermalModel2R2C._hvac_controller, called on drawn arguments             *)
(***************************************************************************)
\* interior temperatures on and around the edges of the deadband of a
\* 22 degree setpoint, far from it, and the non-finite doubles
ControllerTemperatures ==
    {F(10000), F(21000), F(21499), F(21500), F(21501), F(22000), F(22499),
     F(22500), F(22501), F(23000), F(40000), NaN, PInf, NInf}
ControllerSetpoints == {F(22000), NaN, PInf}

HvacController ==
    /\ call.op = "_hvac_controller"
    /\ call.result = <<>>
    /\ call' = [call EXCEPT !.result =
                   <<_hvac_controller(params, call.args.T_i, call.args.setpoint,
                                      call.args.mode)>>]
    /\ UNCHANGED <<params, inputs, pc, loc, outcomes, calls, sc, rq, mpc, catalog, ws>>

InitController ==
    /\ params \in ParameterSets
    /\ inputs = NoInputs
    /\ pc = "idle"
    /\ loc = NoLocals
    /\ outcomes = <<>>
    /\ calls = 0
    /\ sc = NoScenario
    /\ rq = NoRequest
    /\ mpc = NoMPC
    /\ catalog = PRESET_SCENARIOS
    /\ ws = NoWs
    /\ \E t \in ControllerTemperatures, sp \in ControllerSetpoints, m \in ModeCodes :
          call = [op |-> "_hvac_controller",
                  args |-> [T_i |-> t, setpoint |-> sp, mode |-> m],
                  result |-> <<>>]

NextController == HvacController

SpecController == InitController /\ [][NextController]_vars

(***************************************************************************)
(* ScenarioEngine._build_demand_response_scenario, called on drawn          *)
(* arguments                                                               *)
(***************************************************************************)
\* parameter bags: the two presets, a bag whose pre-cool hours overlap its
\* peak hours, and the empty bag
DemandResponseBags ==
    {PRESET_SCENARIOS[10].parameters, PRESET_SCENARIOS[11].parameters,
     [reduction_percent |-> 50, peak_hours |-> {13, 14, 15},
      pre_cool_hours |-> {14}, pre_cool_delta |-> -1000],
     <<>>}

\* baselines of up to MaxLen hourly samples starting between 11:00 and 17:00
\* UTC, with a constant outdoor temperature below, at or above 25 degrees,
\* or not a number
DemandResponseBaselines ==
    {MkInputs([BaseCase EXCEPT !.n = n, !.start = h * 3600, !.T_ext = e]) :
        n \in 1..MaxLen, h \in {11, 12, 13, 14, 17},
        e \in {F(20000), F(25000), F(30000), NaN}}

BuildDemandResponse ==
    /\ call.op = "_build_demand_response_scenario"
    /\ call.result = <<>>
    /\ call' = [call EXCEPT !.result =
                   <<_build_demand_response_scenario(call.args.baseline,
                                                     call.args.params,
                                                     call.args.model)>>]
    /\ UNCHANGED <<params, inputs, pc, loc, outcomes, calls, sc, rq, mpc, catalog, ws>>

InitDemandResponse ==
    /\ params = ThermalParameters
    /\ inputs = NoInputs
    /\ pc = "idle"
    /\ loc = NoLocals
    /\ outcomes = <<>>
    /\ calls = 0
    /\ sc = NoScenario
    /\ rq = NoRequest
    /\ mpc = NoMPC
    /\ catalog = PRESET_SCENARIOS
    /\ ws = NoWs
    /\ \E b \in DemandResponseBaselines, p \in DemandResponseBags :
          call = [op |-> "_build_demand_response_scenario",
                  args |-> [baseline |-> b, params |-> p, model |-> ThermalParameters],
                  result |-> <<>>]

NextDemandResponse == BuildDemandResponse

SpecDemandResponse == InitDemandResponse /\ [][NextDemandResponse]_vars

(***************************************************************************)
(* api/v1/websocket.py: ConnectionManager and websocket_endpoint.  The     *)
(* handlers and broadcast are coroutines of one event loop: a step runs    *)
(* from one await to the next.                                             *)
(***************************************************************************)
\* the building the sockets ask for, when mock_data knows it
WsBuilding == "bld-001"

\* lines 25-27: connect after websocket.accept() has returned
connect(st, websocket, building_id) ==
    LET known == building_id \in DOMAIN st.active_connections
        sets1 == IF known THEN st.sets ELSE Append(st.sets, {})
        active == IF known THEN st.active_connections
                  ELSE [b \in DOMAIN st.active_connections \cup {building_id} |->
                           IF b = building_id THEN Len(sets1)
                           ELSE st.active_connections[b]]
    IN  [st EXCEPT !.sets = [sets1 EXCEPT ![active[building_id]] = @ \cup {websocket}],
                   !.active_connections = active]

\* lines 29-33
disconnect(st, websocket, building_id) ==
    IF building_id \in DOMAIN st.active_connections
    THEN LET id == st.active_connections[building_id]
             left == st.sets[id] \ {websocket}
         IN  [st EXCEPT !.sets[id] = left,
                        !.active_connections =
                            IF left = {}
                            THEN [b \in DOMAIN st.active_connections \ {building_id} |->
                                     st.active_connections[b]]
                            ELSE st.active_connections]
    ELSE st

\* the connections registered for a building
Registered(st, building_id) ==
    IF building_id \in DOMAIN st.active_connections
    THEN st.sets[st.active_connections[building_id]]
    ELSE {}

\* lines 183-189: an except clause of the handler: update_task.cancel(),
\* manager.disconnect(...), then return (WebSocketDisconnect) or re-raise.
\* update_task.cancel() on the unbound local raises UnboundLocalError, which
\* leaves the handler from inside the except clause.
HandlerExcept(st, w, exc) ==
    LET h == st.handler[w]
    IN  IF h.update_task = "unbound"
        THEN [st EXCEPT !.handler[w].pc = "raised",
                        !.handler[w].exc = "UnboundLocalError"]
        ELSE LET st1 == disconnect(st, w, h.building_id)
             IN  [st1 EXCEPT
                     !.handler[w].update_task = IF @ = "running" THEN "cancelled" ELSE @,
                     !.handler[w].pc = IF exc = "WebSocketDisconnect"
                                       THEN "returned" ELSE "raised",
                     !.handler[w].exc = IF exc = "WebSocketDisconnect" THEN "" ELSE exc,
                     !.bc.stayed = @ \ {w}]

\* the exceptions a send on a websocket fails with
SendFailures == {"WebSocketDisconnect", "RuntimeError"}

Others == <<params, inputs, pc, loc, outcomes, calls, sc, rq, mpc, catalog, call>>

\* lines 126-131: the building is looked up; an unknown one closes the
\* websocket and returns, a known one goes on to manager.connect
WsOpen(w) ==
    /\ ws.handler[w].pc = "start"
    /\ \/ ws' = [ws EXCEPT !.handler[w].pc = "returned"]
       \/ ws' = [ws EXCEPT !.handler[w].pc = "accepting",
                           !.handler[w].building_id = WsBuilding]
    /\ UNCHANGED Others

\* line 24: await websocket.accept() returns and connect registers the
\* websocket, or accept raises and the handler ends unregistered
WsAccept(w) ==
    /\ ws.handler[w].pc = "accepting"
    /\ \/ ws' = [connect(ws, w, ws.handler[w].building_id) EXCEPT
                    !.handler[w].pc = "initial_send",
                    !.handler[w].registered = TRUE]
       \/ ws' = [ws EXCEPT !.handler[w].pc = "raised", !.handler[w].exc = "RuntimeError"]
    /\ UNCHANGED Others

\* lines 137-158: the "connected" message is sent and the update task is
\* created, or the send raises and the except clause runs
WsInitialSend(w) ==
    /\ ws.handler[w].pc = "initial_send"
    /\ \/ ws' = [ws EXCEPT !.handler[w].pc = "receiving",
                           !.handler[w].update_task = "running"]
       \/ \E exc \in SendFailures : ws' = HandlerExcept(ws, w, exc)
    /\ UNCHANGED Others

\* lines 163-166 and 179: receive_text returns a command that is answered
\* (ping, subscribe, or text that is not JSON), returns JSON that is not an
\* object (data.get raises AttributeError), or raises WebSocketDisconnect
WsReceive(w) ==
    /\ ws.handler[w].pc = "receiving"
    /\ \/ ws' = [ws EXCEPT !.handler[w].pc = "replying"]
       \/ ws' = HandlerExcept(ws, w, "AttributeError")
       \/ ws' = HandlerExcept(ws, w, "WebSocketDisconnect")
    /\ UNCHANGED Others

\* lines 169-180: the answer is sent, or the send raises
WsReply(w) ==
    /\ ws.handler[w].pc = "replying"
    /\ \/ ws' = [ws EXCEPT !.handler[w].pc = "receiving"]
       \/ \E exc \in SendFailures : ws' = HandlerExcept(ws, w, exc)
    /\ UNCHANGED Others

\* the handler's task is cancelled while it waits in an await:
\* asyncio.CancelledError is not an Exception, no except clause runs
WsCancelled(w) ==
    /\ ws.handler[w].pc \in {"accepting", "initial_send", "receiving", "replying"}
    /\ ws' = [ws EXCEPT !.handler[w].pc = "raised", !.handler[w].exc = "CancelledError"]
    /\ UNCHANGED Others

\* lines 145-155: a send of send_updates raises and the task ends
WsUpdateTaskFails(w) ==
    /\ ws.handler[w].update_task = "running"
    /\ ws' = [ws EXCEPT !.handler[w].update_task = "failed"]
    /\ UNCHANGED Others

\* lines 38-45 from the for statement's next() on: RuntimeError when the set
\* changed size, the next send, or the end of the loop and the clean-up,
\* whose subscript raises KeyError when the building's entry is gone
BroadcastAdvance(st) ==
    LET bc == st.bc
        members == st.sets[bc.obj]
        remaining == members \ bc.yielded
    IN  IF Cardinality(members) # bc.si_used
        THEN {[st EXCEPT !.bc.pc = "raised", !.bc.exc = "RuntimeError", !.bc.current = ""]}
        ELSE IF remaining # {}
        THEN {[st EXCEPT !.bc.pc = "sending", !.bc.current = c,
                         !.bc.yielded = @ \cup {c}] : c \in remaining}
        ELSE IF bc.dead_connections = {}
        THEN {[st EXCEPT !.bc.pc = "done", !.bc.current = ""]}
        ELSE IF bc.building_id \notin DOMAIN st.active_connections
        THEN {[st EXCEPT !.bc.pc = "raised", !.bc.exc = "KeyError", !.bc.current = ""]}
        ELSE {[st EXCEPT !.bc.pc = "done", !.bc.current = "",
                         !.sets[st.active_connections[bc.building_id]] =
                             @ \ bc.dead_connections]}

\* lines 35-40: broadcast is called; without an entry for the building it
\* returns, else it runs up to its first send
BroadcastStart ==
    /\ ws.bc.pc = "idle"
    /\ IF WsBuilding \notin DOMAIN ws.active_connections
       THEN ws' = [ws EXCEPT !.bc.pc = "done", !.bc.building_id = WsBuilding]
       ELSE LET id == ws.active_connections[WsBuilding]
            IN  ws' \in BroadcastAdvance(
                    [ws EXCEPT !.bc.building_id = WsBuilding, !.bc.obj = id,
                               !.bc.si_used = Cardinality(ws.sets[id]),
                               !.bc.stayed = ws.sets[id]])
    /\ UNCHANGED Others

\* lines 40-42: the send broadcast waits in returns or raises; the loop
\* goes on
BroadcastResume ==
    /\ ws.bc.pc = "sending"
    /\ \E failed \in BOOLEAN :
          ws' \in BroadcastAdvance(
              [ws EXCEPT !.bc.dead_connections =
                             IF failed THEN @ \cup {ws.bc.current} ELSE @])
    /\ UNCHANGED Others

InitWebsocket ==
    /\ params = ThermalParameters
    /\ inputs = NoInputs
    /\ pc = "idle"
    /\ loc = NoLocals
    /\ outcomes = <<>>
    /\ calls = 0
    /\ sc = NoScenario
    /\ rq = NoRequest
    /\ mpc = NoMPC
    /\ catalog = PRESET_SCENARIOS
    /\ call = NoCall
    /\ ws = NoWs

NextWebsocket ==
    \/ \E w \in Sockets : WsOpen(w)
    \/ \E w \in Sockets : WsAccept(w)
    \/ \E w \in Sockets : WsInitialSend(w)
    \/ \E w \in Sockets : WsReceive(w)
    \/ \E w \in Sockets : WsReply(w)
    \/ \E w \in Sockets : WsCancelled(w)
    \/ \E w \in Sockets : WsUpdateTaskFails(w)
    \/ BroadcastStart
    \/ BroadcastResume

SpecWebsocket == InitWebsocket /\ [][NextWebsocket]_vars

(***************************************************************************)
(* Properties                                                              *)
(***************************************************************************)
Last(s) == s[Len(s)]

\* every series has the length of timestamps
Aligned(inp) ==
    /\ Len(inp.T_ext) = Len(inp.timestamps)
    /\ Len(inp.solar_radiation) = Len(inp.timestamps)
    /\ Len(inp.occupancy) = Len(inp.timestamps)
    /\ Len(inp.setpoint) = Len(inp.timestamps)
    /\ Len(inp.hvac_mode) = Len(inp.timestamps)
    /\ inp.electricity_price.some =>
           Len(inp.electricity_price.arr) = Len(inp.timestamps)

AllZeroLength(inp) == Len(inp.timestamps) = 0 /\ Aligned(inp)

\* the indices the loop of simulate reads
Consumed(inp) == 1..(Len(inp.timestamps) - 1)

\* a value simulate consumes is NaN, +inf or -inf
ConsumedNonFinite(inp) ==
    \/ ~IsFinite(inp.initial_T_i)
    \/ ~IsFinite(inp.initial_T_w)
    \/ \E k \in Consumed(inp) :
          \/ \E s \in {inp.T_ext, inp.solar_radiation, inp.occupancy, inp.setpoint} :
                k <= Len(s) /\ ~IsFinite(s[k])
          \/ /\ inp.electricity_price.some
             /\ k <= Len(inp.electricity_price.arr)
             /\ ~IsFinite(inp.electricity_price.arr[k])

RecognizedModes == {0, 1, 2, 3}

AllRaised == \A k \in DOMAIN outcomes : outcomes[k].kind = "raise"

\* C1: simulate on inputs whose series all have length 0 is rejected; it
\* never returns a SimulationResult for a zero-length trajectory.
C1_ZeroLengthRejected == AllZeroLength(inputs) => AllRaised

\* C2: when a series is shorter or longer than timestamps, simulate fails
\* before any integration step: no Euler update is performed and no result
\* is returned.
C2_MismatchRejectedBeforeIntegration ==
    ~Aligned(inputs) =>
        /\ loc.euler_steps = 0
        /\ \A k \in DOMAIN outcomes :
              outcomes[k].kind = "raise" /\ outcomes[k].euler_steps = 0

\* C3: when a consumed value is non-finite, simulate fails; it never returns
\* a result computed from that value.
C3_NonFiniteRejected ==
    (Aligned(inputs) /\ ConsumedNonFinite(inputs)) => AllRaised

\* C4: a mode code outside {0, 1, 2, 3} is rejected: the controller never
\* executes a step for it and no result is returned from it; and the
\* /simulation/run handler runs no simulation for an unrecognized mode name.
C4_UnknownModeRejected ==
    /\ \A k \in DOMAIN loc.step_mode : loc.step_mode[k] \in RecognizedModes
    /\ (\E k \in Consumed(inputs) :
           k <= Len(inputs.hvac_mode) /\ inputs.hvac_mode[k] \notin RecognizedModes)
       => AllRaised
    /\ (rq.phase # "none" /\ rq.request.hvac_mode \notin {"off", "heat", "cool", "auto"})
       => (rq.phase = "request" /\ calls = 0)

FiveFamilies ==
    {"setpoint_change", "occupancy_pattern", "weather_forecast",
     "demand_response", "equipment_efficiency"}

\* C5: run_scenario with a scenario_type outside the five transformation
\* families raises an error naming the type, runs neither simulation and
\* returns no comparison.
C5_UnknownScenarioTypeRaises ==
    (sc.phase \notin {"none", "request"} /\ sc.config.scenario_type \notin FiveFamilies) =>
        /\ sc.phase = "raised"
        /\ Len(sc.error) = 1
        /\ sc.error[1].exc = "ValueError"
        /\ sc.error[1].value = sc.config.scenario_type
        /\ calls = 0
        /\ pc = "idle"
        /\ loc = NoLocals
        /\ outcomes = <<>>
        /\ sc.baseline_result = <<>>
        /\ sc.scenario_result = <<>>
        /\ sc.comparison = <<>>

C5_Witness ==
    /\ sc.phase = "raised"
    /\ sc.config.scenario_type = "schedule_optimization"
    /\ sc.error[1].value = "schedule_optimization"

\* C6: for aligned inputs of length N >= 1, simulate performs N integration
\* steps and returns T_internal and T_wall with N + 1 entries, the first
\* being the initial state.
C6_OneStepPerSample ==
    \A k \in DOMAIN outcomes :
        (Aligned(inputs) /\ Len(inputs.timestamps) >= 1 /\ outcomes[k].kind = "return") =>
            LET r == outcomes[k].result
                N == Len(inputs.timestamps)
            IN  /\ Len(r.T_internal) = N + 1
                /\ Len(r.T_wall) = N + 1
                /\ Len(r.Q_hvac) = N
                /\ r.T_internal[1] = inputs.initial_T_i
                /\ r.T_wall[1] = inputs.initial_T_w

\* the electrical energy the claim assigns to a step of thermal power Q
StepContribution(p, Q) ==
    IF FGt(Q, F(0)) THEN FDivK(FMul(FAbs(Q), F(1000)), p.COP_heat)
    ELSE FDivK(FMul(FAbs(Q), F(1000)), p.COP_cool)

\* C7: total_energy_kwh of a returned result equals the sum over the
\* executed steps of |Q_hvac| / COP (heating or cooling COP, 1-hour step),
\* rounded to 2 decimals, and equals the last entry of energy_kwh.
C7_EnergyAccounting ==
    (pc = "idle" /\ outcomes # <<>> /\ Last(outcomes).kind = "return") =>
        LET r == Last(outcomes).result
            contributions == [k \in 1..Len(loc.step_Q) |->
                                 StepContribution(params, loc.step_Q[k])]
        IN  /\ Len(loc.step_Q) = loc.euler_steps
            /\ Len(r.Q_hvac) = loc.euler_steps
            /\ IsFinite(r.total_energy_kwh)
            /\ r.total_energy_kwh = Round2(FSum(contributions))
            /\ r.total_energy_kwh = Last(r.energy_kwh)

C7_Witness ==
    /\ pc = "idle" /\ outcomes # <<>> /\ Last(outcomes).kind = "return"
    /\ Last(outcomes).result.heating_hours >= 1
    /\ Last(outcomes).result.cooling_hours >= 1
    /\ FGt(Last(outcomes).result.total_energy_kwh, F(0))
    /\ Len(Last(outcomes).result.energy_kwh) >= 3

\* C8: simulate is deterministic and side-effect free: no step of a call
\* changes the model's parameters or the inputs, and every call on the same
\* model and inputs produces the same outcome as the calls before it.
C8_DeterministicNoSideEffects ==
    [][/\ params' = params
       /\ inputs' = inputs
       /\ \A j, k \in DOMAIN outcomes' : outcomes'[j] = outcomes'[k]]_vars

C8_Witness ==
    /\ Len(outcomes) >= 2
    /\ outcomes[1].kind = "return"
    /\ outcomes[2].kind = "return"
    /\ Len(outcomes[2].result.Q_hvac) >= 2
    /\ FGt(outcomes[2].result.total_energy_kwh, F(0))

\* constant finite setpoint and outdoor temperature, zero solar radiation
\* and occupancy, auto mode
SteadyInputs(inp) ==
    /\ Aligned(inp)
    /\ ~ConsumedNonFinite(inp)
    /\ \A k \in DOMAIN inp.timestamps :
          /\ inp.setpoint[k] = inp.setpoint[1]
          /\ inp.T_ext[k] = inp.T_ext[1]
          /\ inp.solar_radiation[k] = F(0)
          /\ inp.occupancy[k] = F(0)
          /\ inp.hvac_mode[k] = 3

\* distance of T from the band [setpoint - DEADBAND, setpoint + DEADBAND]
BandDistance(T, setpoint) ==
    IF T.v > setpoint.v + DEADBAND THEN T.v - (setpoint.v + DEADBAND)
    ELSE IF T.v < setpoint.v - DEADBAND THEN (setpoint.v - DEADBAND) - T.v
    ELSE 0

BandSide(T, setpoint) ==
    IF T.v > setpoint.v + DEADBAND THEN 1
    ELSE IF T.v < setpoint.v - DEADBAND THEN -1 ELSE 0

\* C9: for steady inputs the interior temperature approaches the deadband
\* monotonically: its distance from the band never increases from one step
\* to the next and it never jumps from one side of the band to the other.
C9_MonotoneApproach ==
    SteadyInputs(inputs) =>
        \A k \in 1..(Len(loc.T_i_hist) - 1) :
            LET sp == inputs.setpoint[1]
                a == loc.T_i_hist[k]
                b == loc.T_i_hist[k + 1]
            IN  /\ BandDistance(b, sp) <= BandDistance(a, sp)
                /\ BandSide(a, sp) * BandSide(b, sp) # -1

\* C10: the timestep of the Euler update and of the power-to-energy
\* conversion equals the spacing of inputs.timestamps.
C10_TimestepIsSpacing ==
    (pc = "loop" /\ Len(inputs.timestamps) >= 2) =>
        loc.dt = inputs.timestamps[2] - inputs.timestamps[1]

\* the last call has returned and its locals are still those of that call
LastReturned == pc = "idle" /\ outcomes # <<>> /\ Last(outcomes).kind = "return"

\* C11: at every executed step the thermal power is finite and its magnitude
\* is at most hvac_capacity_kw; the reported peak_power_kw is the largest
\* |Q_hvac| of the returned series (0 for a run without steps) and is at
\* most hvac_capacity_kw.
C11_PowerWithinCapacity ==
    LET capacity == params.hvac_capacity_kw * 1000
        within(q) == IsFinite(q) /\ -capacity <= q.v /\ q.v <= capacity
    IN  /\ \A k \in DOMAIN loc.step_Q : within(loc.step_Q[k])
        /\ LastReturned =>
              LET r == Last(outcomes).result
              IN  /\ within(r.peak_power_kw)
                  /\ Len(r.Q_hvac) = Len(loc.step_Q)
                  /\ \A k \in DOMAIN r.Q_hvac :
                        /\ r.Q_hvac[k] = Round2(loc.step_Q[k])
                        /\ FAbs(r.Q_hvac[k]).v <= r.peak_power_kw.v
                  /\ IF r.Q_hvac = <<>> THEN r.peak_power_kw = F(0)
                     ELSE \E k \in DOMAIN r.Q_hvac : FAbs(r.Q_hvac[k]) = r.peak_power_kw

\* a run whose proportional demand exceeded the capacity in both directions
C11_Witness ==
    /\ LastReturned
    /\ Last(outcomes).result.peak_power_kw = F(params.hvac_capacity_kw * 1000)
    /\ \E j, k \in DOMAIN loc.step_Q :
          /\ loc.step_Q[j] = F(params.hvac_capacity_kw * 1000)
          /\ loc.step_Q[k] = F(-(params.hvac_capacity_kw * 1000))

\* optimize has returned or raised
OptimizeFinished == mpc.phase \in {"done", "raised"}

\* the horizon of line 134
Horizon == Min2(Len(mpc.weather_forecast), mpc.config.horizon_hours)

\* the occupancy and price forecasts cover the horizon
ForecastsCover ==
    Len(mpc.occupancy_forecast) >= Horizon /\ Len(mpc.electricity_prices) >= Horizon

\* the solver is unavailable, a solve call raised, or the solve ended in a
\* status other than optimal / optimal_inaccurate
SolverDegraded ==
    \/ ~mpc.cvxpy_available
    \/ mpc.first_solve_raised
    \/ (mpc.status # "" /\ mpc.status \notin {"optimal", "optimal_inaccurate"})

\* C12: optimize never raises because of the solver: when the solver is
\* unavailable, a solve call raises or the solve ends in a non-optimal
\* status, optimize returns the heuristic's result with status "heuristic".
C12_SolverFailureFallsBack ==
    (OptimizeFinished /\ ForecastsCover /\ SolverDegraded) =>
        /\ mpc.phase = "done"
        /\ mpc.outcome[1].path = "heuristic"
        /\ mpc.outcome[1].result.optimization_status = "heuristic"

\* C13: the horizon is min(len(weather_forecast), horizon_hours), and when
\* the occupancy or price forecast is shorter the horizon is truncated to the
\* shortest forecast: unless the solver itself raised, optimize returns a
\* result whose series have that length.
C13_HorizonTruncatedToShortest ==
    (OptimizeFinished /\ ~(mpc.phase = "raised" /\ mpc.outcome[1].exc = "SolverError")) =>
        LET shortest == Min2(Horizon, Min2(Len(mpc.occupancy_forecast),
                                           Len(mpc.electricity_prices)))
        IN  /\ mpc.phase = "done"
            /\ mpc.outcome[1].result.horizon_hours = shortest
            /\ Len(mpc.outcome[1].result.predicted_power) = shortest
            /\ Len(mpc.outcome[1].result.schedule) = shortest

\* C14: every result of optimize has the same shape on both paths:
\* predicted_temps has N + 1 entries, predicted_power, predicted_energy,
\* optimal_setpoints and schedule have N entries, horizon_hours = N, and the
\* status is optimal, optimal_inaccurate or heuristic, heuristic exactly when
\* the heuristic produced the trajectories.
C14_SameShapeOnBothPaths ==
    mpc.phase = "done" =>
        LET r == mpc.outcome[1].result
            N == Horizon
        IN  /\ Len(r.predicted_temps) = N + 1
            /\ Len(r.predicted_power) = N
            /\ Len(r.predicted_energy) = N
            /\ Len(r.optimal_setpoints) = N
            /\ Len(r.schedule) = N
            /\ r.horizon_hours = N
            /\ r.optimization_status \in {"optimal", "optimal_inaccurate", "heuristic"}
            /\ (r.optimization_status = "heuristic") <=> (mpc.outcome[1].path = "heuristic")

\* a solver-path result over a horizon cut by horizon_hours
C14_Witness ==
    /\ mpc.phase = "done"
    /\ mpc.outcome[1].path = "solver"
    /\ mpc.outcome[1].result.optimization_status = "optimal_inaccurate"
    /\ mpc.outcome[1].result.horizon_hours = 2
    /\ Len(mpc.weather_forecast) = 3
    /\ Len(mpc.outcome[1].result.optimal_setpoints) = 2

\* the parameters PRESET_SCENARIOS holds at start-up for a scenario id
OriginalParameters(id) ==
    PRESET_SCENARIOS[CHOOSE k \in 1..Len(PRESET_SCENARIOS) : PRESET_SCENARIOS[k].id = id].parameters

\* C15: the preset catalog is fixed: after any sequence of scenario-run
\* requests every preset has its start-up parameters, and a request without
\* custom parameters runs with the catalog's original parameters.
C15_CatalogFixed ==
    /\ catalog = PRESET_SCENARIOS
    /\ (sc.phase \in {"request", "baseline", "scenario", "done"} /\ sc.custom = <<>>)
          => sc.config.parameters = OriginalParameters(sc.config.id)

\* one of the specific rules of the ladder applies to the arguments
SpecificRuleFires(a) ==
    \/ FGt(a.savings_percent, F(10000)) /\ FGt(a.comfort_impact, F(-5000))
    \/ FGt(a.savings_percent, F(5000)) /\ FLt(a.comfort_impact, F(-5000))
    \/ FLt(a.savings_percent, F(0))
    \/ FGt(a.savings_percent, F(0))
    \/ FGt(FMul(a.scenario.peak_power_kw, F(10)), FMul(a.baseline.peak_power_kw, F(12)))
    \/ FLt(FMul(a.scenario.peak_power_kw, F(10)), FMul(a.baseline.peak_power_kw, F(8)))

\* C16: the rule ladder returns at least one string for every pair of
\* results and every savings_percent and comfort_impact; when no specific
\* rule fires the list is exactly the generic run-additional-scenarios entry.
C16_AlwaysARecommendation ==
    (call.op = "_generate_recommendations" /\ call.result # <<>>) =>
        /\ Len(call.result[1]) >= 1
        /\ ~SpecificRuleFires(call.args) => call.result[1] = <<"run_additional_scenarios">>
        /\ SpecificRuleFires(call.args) =>
              \A k \in DOMAIN call.result[1] : call.result[1][k] # "run_additional_scenarios"

\* no savings, equal peaks: only the default entry
C16_Witness ==
    /\ call.op = "_generate_recommendations"
    /\ call.args.savings_percent = F(0)
    /\ call.args.scenario.peak_power_kw = F(40000)
    /\ call.args.baseline.peak_power_kw = F(40000)
    /\ call.result = << <<"run_additional_scenarios">> >>

\* C17: running the "setpoint-night-setback" preset for 24 hours against
\* the synthesized baseline yields scenario energy <= baseline energy, with
\* energy_savings_kwh > 0 in the returned comparison.
C17_NightSetbackSaves ==
    (sc.phase = "done" /\ sc.config.id = "setpoint-night-setback"
                       /\ sc.duration_hours = 24) =>
        /\ sc.comparison[1].scenario_energy_kwh.v <= sc.comparison[1].baseline_energy_kwh.v
        /\ sc.comparison[1].energy_savings_kwh.v > 0

\* |error| <= 0.5
InsideDeadband(error) == IsFinite(error) /\ -500 <= error.v /\ error.v <= 500

Within(x, lo, hi) == IsFinite(x) /\ lo <= x.v /\ x.v <= hi

\* every entry after the initial sample is within the clamp bounds
ClampedSeries(T_i_series, T_w_series) ==
    /\ \A k \in 2..Len(T_i_series) : Within(T_i_series[k], 10000, 40000)
    /\ \A k \in 2..Len(T_w_series) : Within(T_w_series[k], 5000, 45000)

\* C19: after every integration step the interior temperature is in
\* [10, 40] and the envelope temperature in [5, 45]: the live values, every
\* entry of the histories after the initial sample and every entry of
\* T_internal and T_wall of a returned result; an integrated value outside
\* the range (or not a number) is clamped and the call goes on, the only
\* failure of a call being the IndexError of a short series.
C19_TemperaturesClamped ==
    /\ (pc = "loop" /\ loc.euler_steps > 0) =>
          /\ Within(loc.T_i, 10000, 40000)
          /\ Within(loc.T_w, 5000, 45000)
    /\ pc = "loop" => ClampedSeries(loc.T_i_hist, loc.T_w_hist)
    /\ \A j \in 1..Len(outcomes) :
          /\ outcomes[j].kind = "return" =>
                ClampedSeries(outcomes[j].result.T_internal, outcomes[j].result.T_wall)
          /\ outcomes[j].kind = "raise" => outcomes[j].exc = "IndexError"

\* a returned run whose interior temperature was clamped at 40 and whose
\* envelope temperature was clamped at 45
C19_Witness ==
    /\ outcomes # <<>>
    /\ outcomes[1].kind = "return"
    /\ Len(outcomes[1].result.T_internal) >= 2
    /\ outcomes[1].result.T_internal[2] = F(40000)
    /\ outcomes[1].result.T_wall[2] = F(45000)

\* the price of step k: the supplied series, or 0.15 EUR/kWh
StepPrice(k) ==
    IF inputs.electricity_price.some THEN inputs.electricity_price.arr[k] ELSE F(15)

\* C20: for every executed step k with thermal power Q: the energy added
\* is |Q| / COP_heat when Q > 0, |Q| / COP_cool when Q < 0 and 0 when
\* Q = 0; the cost added is that energy times the price of step k (0.15
\* EUR/kWh when no price series is supplied); the accumulators are the sums
\* of what the steps added; and the energy_kwh history starts at 0 and
\* never decreases.
C20_StepEnergyAndCost ==
    pc = "loop" =>
        /\ Len(loc.step_energy) = Len(loc.step_Q)
        /\ Len(loc.step_cost) = Len(loc.step_Q)
        /\ \A k \in 1..Len(loc.step_Q) :
              LET Q == loc.step_Q[k]
                  e == loc.step_energy[k]
              IN  /\ IsFinite(Q)
                  /\ Q.v > 0 => e = F(RDiv(Q.v * 1000, params.COP_heat))
                  /\ Q.v < 0 => e = F(RDiv((-Q.v) * 1000, params.COP_cool))
                  /\ Q.v = 0 => e = F(0)
                  /\ loc.step_cost[k] = FMul(e, StepPrice(k))
        /\ loc.cumulative_energy = FSum(loc.step_energy)
        /\ loc.cumulative_cost = FSum(loc.step_cost)
        /\ loc.energy_hist[1] = F(0)
        /\ Len(loc.energy_hist) = Len(loc.step_Q) + 1
        /\ \A k \in 1..(Len(loc.energy_hist) - 1) :
              /\ IsFinite(loc.energy_hist[k + 1])
              /\ loc.energy_hist[k].v <= loc.energy_hist[k + 1].v

\* a call without a price series that heated in its first step and cooled
\* in its second, each step adding energy and cost
C20_Witness ==
    /\ pc = "loop"
    /\ ~inputs.electricity_price.some
    /\ Len(loc.step_Q) = 2
    /\ loc.step_Q[1].v > 0
    /\ loc.step_Q[2].v < 0
    /\ FGt(loc.step_cost[1], F(0))
    /\ FGt(loc.step_cost[2], F(0))
    /\ FGt(loc.energy_hist[3], loc.energy_hist[2])

\* the result of a finished optimize that returned
MPCResultOf == mpc.outcome[1].result

\* C21: in every MPCResult, from the solver or from the heuristic, the
\* power change between consecutive steps is at most ramp_limit_kw and every
\* predicted_power[k] lies in [-max_cooling_kw, max_heating_kw]
\* (predicted_power is kept in W).
C21_RampAndPowerLimits ==
    (mpc.phase = "done") =>
        LET P == MPCResultOf.predicted_power
        IN  /\ \A k \in 1..Len(P) :
                  /\ P[k] >= -(mpc.config.max_cooling_kw * 1000)
                  /\ P[k] <= mpc.config.max_heating_kw * 1000
            /\ \A k \in 1..(Len(P) - 1) :
                  Abs(P[k + 1] - P[k]) <= mpc.config.ramp_limit_kw * 1000

\* a COP scaled by the percentages of an efficiency parameter bag
ScaledCOP(p, cop) ==
    IF Get(p, "cop_reduction_percent", 0) > 0
    THEN RDiv(cop * (100 - p.cop_reduction_percent), 100)
    ELSE IF Get(p, "cop_increase_percent", 0) > 0
    THEN RDiv(cop * (100 + p.cop_increase_percent), 100)
    ELSE cop

\* C22: for every building_id, an equipment-efficiency scenario runs on a
\* model whose parameters equal those of the building's baseline model in
\* everything except COP_heat and COP_cool, which are the baseline values
\* scaled by the percentage; the scenario inputs equal the baseline inputs
\* and the baseline model's parameters are left unchanged.
C22_EfficiencyKeepsBuilding ==
    (sc.config.scenario_type = "equipment_efficiency" /\ sc.model_modified # <<>>) =>
        LET base == create_building_model(sc.building_id)
            p == sc.config.parameters
        IN  /\ sc.model_modified[1] =
                  [base EXCEPT !.COP_cool = ScaledCOP(p, @), !.COP_heat = ScaledCOP(p, @)]
            /\ sc.scenario_inputs[1] = sc.baseline_inputs[1]
            /\ sc.model[1] = base
            /\ sc.phase = "scenario" => params = sc.model_modified[1]

\* C23: the setpoint-change transformation without deadband_expansion
\* returns inputs whose setpoint is baseline + delta_temp exactly at the
\* indices whose hour of day (of the timestamp) is in hours and the baseline
\* setpoint at every other index; every other series and the initial
\* conditions equal the baseline's.
C23_SetpointChangeOnlyInHours ==
    (/\ sc.config.scenario_type = "setpoint_change"
     /\ "deadband_expansion" \notin DOMAIN sc.config.parameters
     /\ sc.scenario_inputs # <<>>) =>
        LET b == sc.baseline_inputs[1]
            s == sc.scenario_inputs[1]
            delta == Get(sc.config.parameters, "delta_temp", 0)
            hours == Get(sc.config.parameters, "hours", {})
        IN  /\ Len(s.setpoint) = Len(b.setpoint)
            /\ \A k \in 1..Len(b.setpoint) :
                  IF ((b.timestamps[k] \div 3600) % 24) \in hours
                  THEN s.setpoint[k] = FAdd(b.setpoint[k], F(delta))
                  ELSE s.setpoint[k] = b.setpoint[k]
            /\ s.timestamps = b.timestamps
            /\ s.T_ext = b.T_ext
            /\ s.solar_radiation = b.solar_radiation
            /\ s.occupancy = b.occupancy
            /\ s.hvac_mode = b.hvac_mode
            /\ s.electricity_price = b.electricity_price
            /\ s.initial_T_i = b.initial_T_i
            /\ s.initial_T_w = b.initial_T_w
            /\ sc.model_modified = sc.model

\* hours {0, 1} and +1 degree on three samples from 22:00 UTC on: the first
\* two samples keep the baseline setpoint, the third is raised
C23_Witness ==
    /\ sc.config.scenario_type = "setpoint_change"
    /\ sc.config.parameters = [delta_temp |-> 1000, hours |-> {0, 1}]
    /\ sc.tz = 2
    /\ sc.scenario_inputs # <<>>
    /\ sc.baseline_inputs[1].setpoint = <<F(23000), F(23000), F(23000)>>
    /\ sc.scenario_inputs[1].setpoint = <<F(23000), F(23000), F(24000)>>

\* C24: the "Recommend implementation" message is emitted only when
\* savings_percent > 10 and comfort_impact >= 0; it is never emitted for a
\* scenario whose comfort score is lower than the baseline's.
C24_AdoptionOnlyWithoutComfortLoss ==
    (/\ call.op = "_generate_recommendations"
     /\ call.result # <<>>
     /\ \E k \in DOMAIN call.result[1] : call.result[1][k] = "recommend_implementation") =>
        /\ FGt(call.args.savings_percent, F(10000))
        /\ ~IsNaN(call.args.comfort_impact)
        /\ ~FLt(call.args.comfort_impact, F(0))

\* C25: after the builder of any of the five families has returned, every
\* series and initial condition of the baseline inputs and the parameters
\* of the baseline model are what they were before the builder ran, and the
\* baseline simulation runs on exactly these.
C25_BuildersLeaveBaselineAlone ==
    (sc.phase \in {"baseline", "scenario", "done"}) =>
        LET generated == _generate_baseline_inputs(LocalMidnight(sc.tz), sc.duration_hours)
            created == create_building_model(sc.building_id)
        IN  /\ sc.baseline_inputs = <<generated>>
            /\ sc.model = <<created>>
            /\ sc.phase = "baseline" => (params = created /\ inputs = generated)

\* the upgrade scenario: the modified model has the raised COPs while the
\* baseline model being simulated keeps its own
C25_Witness ==
    /\ sc.phase = "baseline"
    /\ sc.config.id = "equipment-upgrade"
    /\ sc.model_modified[1].COP_heat = 5200
    /\ sc.model[1].COP_heat = 4000
    /\ params.COP_heat = 4000
    /\ loc.euler_steps >= 1

\* the setpoint the claim gives to a peak-hour index
PeakSetpoint(b, p, k) ==
    IF FGt(b.T_ext[k], F(25000))
    THEN FAdd(b.setpoint[k], F(30 * Get(p, "reduction_percent", 0)))
    ELSE FSub(b.setpoint[k], F(30 * Get(p, "reduction_percent", 0)))

\* a finished call of the demand-response builder
DemandResponseBuilt == call.op = "_build_demand_response_scenario" /\ call.result # <<>>

\* C26: at every index whose hour of day is in peak_hours the scenario
\* setpoint is baseline + 3 * (reduction_percent / 100) when the outdoor
\* temperature is above 25 degrees and baseline - 3 * (reduction_percent /
\* 100) otherwise; at every index whose hour is in pre_cool_hours it is
\* baseline + pre_cool_delta; at all other indices it is the baseline.
C26_DemandResponseSetpoints ==
    DemandResponseBuilt =>
        LET b == call.args.baseline
            p == call.args.params
            s == call.result[1].scenario
            peak_hours == Get(p, "peak_hours", {14, 15, 16, 17})
            pre_cool_hours == Get(p, "pre_cool_hours", {})
        IN  /\ Len(s.setpoint) = Len(b.setpoint)
            /\ \A k \in 1..Len(b.setpoint) :
                  LET hour == (b.timestamps[k] \div 3600) % 24
                  IN  /\ hour \in peak_hours => s.setpoint[k] = PeakSetpoint(b, p, k)
                      /\ hour \in pre_cool_hours =>
                            s.setpoint[k] = FAdd(b.setpoint[k], F(Get(p, "pre_cool_delta", -2000)))
                      /\ hour \notin (peak_hours \cup pre_cool_hours) =>
                            s.setpoint[k] = b.setpoint[k]

\* C26, amended: the pre-cool rule comes first. At every index whose hour is
\* in pre_cool_hours the setpoint is baseline + pre_cool_delta; at every
\* index whose hour is in peak_hours and not in pre_cool_hours it is the
\* baseline raised (outdoor temperature above 25) or lowered (otherwise) by
\* 3 * (reduction_percent / 100); at all other indices it is the baseline.
C26_PreCoolBeforePeak ==
    DemandResponseBuilt =>
        LET b == call.args.baseline
            p == call.args.params
            s == call.result[1].scenario
            peak_hours == Get(p, "peak_hours", {14, 15, 16, 17})
            pre_cool_hours == Get(p, "pre_cool_hours", {})
        IN  /\ Len(s.setpoint) = Len(b.setpoint)
            /\ \A k \in 1..Len(b.setpoint) :
                  LET hour == (b.timestamps[k] \div 3600) % 24
                  IN  /\ hour \in pre_cool_hours =>
                            s.setpoint[k] = FAdd(b.setpoint[k], F(Get(p, "pre_cool_delta", -2000)))
                      /\ hour \in (peak_hours \ pre_cool_hours) =>
                            s.setpoint[k] = PeakSetpoint(b, p, k)
                      /\ hour \notin (peak_hours \cup pre_cool_hours) =>
                            s.setpoint[k] = b.setpoint[k]

\* samples at 13:00, 14:00 and 15:00 of a hot day with peak hours
\* {13, 14, 15} and pre-cool hour 14: raised by 1.5, lowered by 1, raised
\* by 1.5
C26_Witness ==
    /\ DemandResponseBuilt
    /\ call.args.params = [reduction_percent |-> 50, peak_hours |-> {13, 14, 15},
                           pre_cool_hours |-> {14}, pre_cool_delta |-> -1000]
    /\ call.args.baseline.timestamps = <<13 * 3600, 14 * 3600, 15 * 3600>>
    /\ call.args.baseline.T_ext = <<F(30000), F(30000), F(30000)>>
    /\ call.result[1].scenario.setpoint = <<F(23500), F(21000), F(23500)>>

\* C27: for every index i of the inputs the scenario engine synthesizes,
\* the hour of day that simulate and the transformations derive from
\* timestamps[i] equals the hour (i mod 24) used to synthesize the outdoor
\* temperature, solar radiation, occupancy and prices at index i, for
\* every base date and time zone of the server.
C27_TimestampHourIsSynthesisHour ==
    sc.baseline_inputs # <<>> =>
        \A k \in 1..Len(sc.baseline_inputs[1].timestamps) :
            HourOf(sc.baseline_inputs[1].timestamps[k]) = (k - 1) % 24

\* a handler that has terminated
Terminated(w) == ws.handler[w].pc \in {"returned", "raised"}

\* C28: whenever the handler of a connection has terminated after the
\* connection was registered, for any reason, the websocket is not in
\* active_connections and its update task is not running.
C28_HandlerCleansUp ==
    \A w \in Sockets :
        (Terminated(w) /\ ws.handler[w].registered) =>
            /\ w \notin Registered(ws, ws.handler[w].building_id)
            /\ ws.handler[w].update_task # "running"

\* C29: broadcast is safe under interleaving with connect and disconnect
\* for the same building: while it is suspended in a send, a handler adding
\* or removing a connection, or deleting the building's entry, never makes
\* broadcast fail or skip a connection that stayed registered throughout,
\* and after broadcast no connection whose send failed remains registered.
C29_BroadcastSafeUnderInterleaving ==
    /\ ws.bc.pc # "raised"
    /\ ws.bc.pc = "done" =>
          /\ ws.bc.stayed \subseteq ws.bc.yielded
          /\ ws.bc.dead_connections \cap Registered(ws, ws.bc.building_id) = {}

\* C30: in a heuristic-path MPCResult, optimal_setpoints[k] equals the
\* target setpoint the heuristic chose at step k (preferred setpoint with
\* setback, pre-conditioning and high-price drift applied), the one used to
\* compute predicted_power[k], for every step k of the horizon.
C30_SetpointsAreHeuristicTargets ==
    (mpc.phase = "done" /\ mpc.outcome[1].path = "heuristic") =>
        LET r == mpc.outcome[1].result
        IN  /\ Len(r.optimal_setpoints) = mpc.N
            /\ \A k \in 1..mpc.N :
                  r.optimal_setpoints[k] =
                      SimpleTarget(mpc.T_ext, mpc.occupancy, mpc.prices,
                                   mpc.preferred_setpoint, mpc.N, k)

====
